---- MODULE Spec2Model ----
(***************************************************************************)
(* Model of the LinMot EtherCAT master: the cyclic engine of               *)
(* EtherCATCommunication.py (setup_comm, comm_process, start, stop), the   *)
(* shared objects it exchanges with its client (stop_event, data, lock,    *)
(* update_queue, data_queue, data_queue_ON) and the command helpers of     *)
(* SendData.py working on the client's LMDrive_Data objects.               *)
(*                                                                         *)
(* Times are integers in ticks of 0.1 ms.  An input image is abstracted to *)
(* the state_var word it carries, an output image to the record of the     *)
(* output words the helpers write.                                         *)
(***************************************************************************)
EXTENDS Integers, Sequences, FiniteSets, TLC

VARIABLES
    \* ---- configuration (constructor arguments, fixed after Init) ----
    noDev,                  \* self.noDev
    Activate_LMDrive_Data,  \* self.Activate_LMDrive_Data
    cycle_time,             \* self.cycle_time, in ticks
    env,                    \* what the environment of this run may do
    no_Monitoring,          \* self.no_Monitoring (M)
    no_Parameter,           \* self.no_Parameter (P)
    para_list,              \* the para_word list the client passes to an update
    mp_log,                 \* self.mp_log
    \* ---- engine process ----
    pc,                     \* position of comm_process / setup_comm
    adapter,                \* "unopened" | "open" | "closed"
    master_state,           \* self.master.state as last written
    setup_i,                \* index of the slave being configured in setup_comm
    setup_fault,            \* the bring-up step that failed in this run, or "none"
    found,                  \* what self.master.config_init() returned
    sdo_log,                \* the sdo_write calls issued to slave i, in order
    overrun_count,          \* local overrun_count
    slave_state,            \* local slave_state[i]
    reading,                \* what state_check returned for slave i in this cycle
    all_data,               \* local all_data of the running cycle
    elapsed,                \* time spent in the running cycle so far
    lock_timed_out,         \* the running cycle's lock.acquire timed out
    slaves_output,          \* slaves[i].output
    lm_drive_data_dict,     \* engine-side LMDrive_Data (Activate_LMDrive_Data)
    pd_sent,                \* send_processdata has been called
    cycle_samples,          \* data_queue.put calls made by the running cycle
    cycle_drained,          \* update_queue.get_nowait calls made by the running cycle
    exit_reason,            \* why the cycle loop was left
    \* ---- shared objects ----
    stop_event,             \* mp.Event
    data_queue_ON,          \* mp.Event
    data,                   \* mp.Array: the input snapshot
    lock,                   \* mp.Lock: "free" | "client"
    update_queue,           \* mp.Queue of output-image lists
    data_queue,             \* mp.Queue of all_data samples
    \* ---- client ----
    client_pc,              \* position of the client w.r.t. start()/stop()
    inputs,                 \* app.lm_drive_data_dict[d].inputs['state_var']
    outputs,                \* app.lm_drive_data_dict[d].outputs
    \* ---- one LMDrive_Data object and the frame it packs / unpacks ----
    codec_pc,               \* the last codec call made on the object and its outcome
    wire,                   \* the frame (a sequence of bytes) of that call
    lmd_inputs,             \* self.inputs
    lmd_outputs,            \* self.outputs
    lmd_status,             \* self.status (error_code)
    \* ---- telemetry and the client's two-step helpers ----
    error_queue,            \* mp.Queue: the kinds of message put on error_queue
    helper_pc,              \* the two-step helper the client is inside, or "none"
    helper_d,               \* the drive that helper works on
    \* ---- history of the run, for stating what was exchanged when ----
    wait_cycles,            \* cycles the engine completed during the helper's wait
    low_sent,               \* a frame with bit 0 = 0 was sent since the helper's first push
    exch,                   \* number of the engine's last completed exchange
    data_exch,              \* number of the exchange whose image is in data
    read_exch,              \* number of the exchange whose image the client last read
    sent,                   \* the output images of the frame last transmitted
    applied,                \* the mailbox entry last assigned to the output buffers
    \* ---- the snapshot followed slot by slot ----
    wr,                     \* slots of the running cycle's image the engine has stored
    cl_pc,                  \* position of client thread c inside process_input_data
    copy,                   \* all_slave_data of client thread c, as far as copied
    \* ---- motion_finished ----
    mf_pc,                  \* position of the client inside motion_finished
    lm_drive_data_updated,  \* app.lm_drive_data_updated
    device_data_old,        \* app.device_data_old
    ldd_old                 \* local ldd_old

cfg_vars    == <<noDev, Activate_LMDrive_Data, cycle_time, env, no_Monitoring,
                 no_Parameter, para_list, mp_log>>
engine_vars == <<pc, adapter, master_state, setup_i, setup_fault, found, sdo_log,
                 overrun_count,
                 slave_state, reading, all_data, elapsed, lock_timed_out,
                 slaves_output, lm_drive_data_dict, pd_sent, cycle_samples,
                 cycle_drained, exit_reason>>
shared_vars == <<stop_event, data_queue_ON, data, lock, update_queue, data_queue>>
client_vars == <<client_pc, inputs, outputs>>
codec_vars  == <<codec_pc, wire, lmd_inputs, lmd_outputs, lmd_status>>
log_vars    == <<error_queue>>
helper_vars == <<helper_pc, helper_d>>
hist_vars   == <<wait_cycles, low_sent, exch, data_exch, read_exch>>
frame_vars  == <<sent, applied>>
motion_vars == <<mf_pc, lm_drive_data_updated, device_data_old, ldd_old>>
snap_vars   == <<wr, cl_pc, copy, motion_vars>>
aux_vars    == <<log_vars, helper_vars, hist_vars, frame_vars, snap_vars>>
vars == <<cfg_vars, engine_vars, shared_vars, client_vars, codec_vars, aux_vars>>

----------------------------------------------------------------------------
(* Bounds of the model *)

MaxDev     == 2     \* largest slave count explored
MaxMailbox == 2     \* update_queue entries a client leaves pending
MaxScope   == 4     \* data_queue samples explored
MaxParaLen == 7     \* longest para_word list explored
MaxExch    == 4     \* exchanges numbered in a run that follows the snapshot
UpdateWrap == 3     \* values of lm_drive_data_updated followed before it wraps
MaxClients == 2     \* client threads that read the snapshot (Main: main and print thread)
ScopeCapacity == 3  \* a capacity N of the scope queue, below MaxScope

Devices == 1 .. noDev
Clients == 1 .. MaxClients

----------------------------------------------------------------------------
(* LMDrive_Data: the output words and their defaults *)

ParaSlots == 0 .. 9

DefaultControlWord == 62        \* 0x003E

DefaultOutputs ==
    [control_word |-> DefaultControlWord,
     mc_header    |-> 0,
     mc_para      |-> [k \in ParaSlots |-> 0]]

\* pack_outputs: the image carries the words of outputs in the fixed layout;
\* keys beyond mc_para_word09 are not part of the layout.
pack_outputs(o) ==
    [control_word |-> o.control_word,
     mc_header    |-> o.mc_header,
     mc_para      |-> [k \in ParaSlots |-> o.mc_para[k]]]

----------------------------------------------------------------------------
(* LMDrive_Data.py: the struct layouts and the codec of one object          *)

\* the struct module: a format is a sequence of codes, "H" an unsigned
\* 16-bit and "i" a signed 32-bit field, little-endian without padding ("<")
FieldSize(c) == IF c = "H" THEN 2 ELSE 4

RECURSIVE calcsize(_)
calcsize(fmt) == IF fmt = << >> THEN 0 ELSE FieldSize(Head(fmt)) + calcsize(Tail(fmt))

Repeat(c, k) == [j \in 1 .. k |-> c]

\* the bytes of one field, least significant first (two's complement for "i")
PackField(c, v) ==
    IF c = "H"
    THEN << v % 256, (v \div 256) % 256 >>
    ELSE << v % 256, (v \div 256) % 256, (v \div 65536) % 256, (v \div 16777216) % 256 >>

\* the value of the field of code c whose bytes start after offset off
UnpackField(c, b, off) ==
    IF c = "H"
    THEN b[off + 1] + 256 * b[off + 2]
    ELSE b[off + 1] + 256 * b[off + 2] + 65536 * b[off + 3]
         + 16777216 * (IF b[off + 4] >= 128 THEN b[off + 4] - 256 ELSE b[off + 4])

RECURSIVE struct_pack(_, _)
struct_pack(fmt, values) ==
    IF fmt = << >> THEN << >>
    ELSE PackField(Head(fmt), Head(values)) \o struct_pack(Tail(fmt), Tail(values))

\* struct.unpack raises struct.error unless the buffer has the format's size
Unpackable(fmt, b) == Len(b) = calcsize(fmt)

struct_unpack(fmt, b) ==
    [j \in 1 .. Len(fmt) |-> UnpackField(fmt[j], b, calcsize(SubSeq(fmt, 1, j - 1)))]

\* '<HHHiiiHHi' and '<HHHHHHHHHHHHHHi'
InputBaseFormat  == << "H", "H", "H", "i", "i", "i", "H", "H", "i" >>
OutputBaseFormat == Repeat("H", 14) \o << "i" >>

\* unpack_inputs: base_format + 'i' * num_mon_ch
InputFormat(M) == InputBaseFormat \o Repeat("i", M)
\* pack_outputs: base_format + 'H' * num_par_ch
PackOutputFormat(P) == OutputBaseFormat \o Repeat("H", P)
\* unpack_outputs: base_format_par + 'i' * num_par_ch
UnpackOutputFormat(P) == OutputBaseFormat \o Repeat("i", P)

\* self.InputLength = 18 + 8 + (4 * self.no_Monitoring)
InputLength(M) == 18 + 8 + (4 * M)
\* self.data = mp.Array('i', noDev * self.InputLength)
SnapshotLength(n, M) == n * InputLength(M)

\* uint16_to_sint16
uint16_to_sint16(val) == IF val >= 32768 THEN val - 65536 ELSE val

\* self.inputs and self.outputs of LMDrive_Data(num_mon_channels, num_par_channels)
NewInputs(M) ==
    [state_var |-> 0, status_word |-> 0, warn_word |-> 0, demand_pos |-> 0,
     actual_pos |-> 0, demand_curr |-> 0, cfg_status |-> 0, cfg_index_in |-> 0,
     cfg_value_in |-> 0, mon_ch |-> [j \in 1 .. M |-> 0]]

NewOutputs(P) ==
    [control_word |-> DefaultControlWord, mc_header |-> 0,
     mc_para |-> [k \in ParaSlots |-> 0],
     cfg_control |-> 0, cfg_index_out |-> 0, cfg_value_out |-> 0,
     par_ch |-> [j \in 1 .. P |-> 0]]

\* self.status of a new object; the three monitoring fields hold the integer
\* that the scale factor of config multiplies
NewStatus ==
    [error_code |-> 0, measured_force |-> 0, analog_diff_voltage |-> 0,
     analog_voltage |-> 0]

\* ctypes.c_int32(x).value
MaxInt32 == 2147483647
MinInt32 == -2147483647 - 1
c_int32(x) ==
    IF x > MaxInt32 THEN MinInt32 + (x - MaxInt32 - 1)
    ELSE IF x < MinInt32 THEN MaxInt32 - (MinInt32 - x - 1)
    ELSE x

\* the values struct.unpack hands to unpack_inputs, as the fields of inputs;
\* every monitoring channel goes through uint16_to_sint16
DecodedFields(M, b) ==
    LET u == struct_unpack(InputFormat(M), b) IN
    [state_var |-> u[1], status_word |-> u[2], warn_word |-> u[3],
     demand_pos |-> u[4], actual_pos |-> u[5], demand_curr |-> u[6],
     cfg_status |-> u[7], cfg_index_in |-> u[8], cfg_value_in |-> u[9],
     mon_ch |-> [j \in 1 .. M |-> uint16_to_sint16(u[9 + j])]]

\* data_to_pack of pack_outputs
data_to_pack(o) ==
    << o.control_word, o.mc_header >>
    \o [k \in 1 .. 10 |-> o.mc_para[k - 1]]
    \o << o.cfg_control, o.cfg_index_out, o.cfg_value_out >>
    \o o.par_ch

\* the assignment of unpack_outputs from the unpacked tuple
DecodedOutputs(P, b) ==
    LET u == struct_unpack(UnpackOutputFormat(P), b) IN
    [control_word |-> u[1], mc_header |-> u[2],
     mc_para |-> [k \in ParaSlots |-> u[3 + k]],
     cfg_control |-> u[13], cfg_index_out |-> u[14], cfg_value_out |-> u[15],
     par_ch |-> [j \in 1 .. P |-> u[15 + j]]]

\* update_calculated_fields: state_var & 0xFF00 == 0x0400 selects the low byte
InErrorState(state_var) == state_var - (state_var % 256) = 1024
error_code_unmasked(state_var) == IF InErrorState(state_var) THEN state_var ELSE 0
error_code(state_var) == IF InErrorState(state_var) THEN state_var % 256 ELSE 0

----------------------------------------------------------------------------
(* SendData.py: the command helpers *)

\* Motion headers of send_motion_command
Absolute_VAI      == 256      \* 0x0100
Relative_VAI      == 272      \* 0x0110
Absolute_VAJI     == 14848    \* 0x3A00
Relative_VAJI     == 14864    \* 0x3A10
Incr_Act_Pos_RstI == 3472     \* 0x0D90
Absolute_Sin      == 3584     \* 0x0E00
Relative_Sin      == 3600     \* 0x0E10
CommandTableHeader == 8192    \* 0x2000, the header of a command-table trigger

MotionHeaders == {Absolute_VAI, Relative_VAI, Absolute_VAJI, Relative_VAJI,
                  Incr_Act_Pos_RstI, Absolute_Sin, Relative_Sin}
jerc_necessery(h) == h \in {Absolute_VAJI, Relative_VAJI}
acc_combined(h)   == h \in {Absolute_Sin, Relative_Sin}

unit_scale == 10000

\* x & 0x000F and x & 0xFFF0 on a 16-bit word
LowNibble(x)  == x % 16
HighBits(x)   == x - (x % 16)

\* int(float(arg) * k) for an argument given in thousandths: truncation
\* toward zero of arg * k / 1000
Abs(x) == IF x >= 0 THEN x ELSE -x
Scaled(arg, k) ==
    LET q == Abs(arg) \div 1000
        r == Abs(arg) % 1000
        m == q * k + ((r * k) \div 1000)
    IN  IF arg >= 0 THEN m ELSE -m

\* the counter read stamped back unchanged
toggle_bits_kept(state_var, header) == HighBits(header) + LowNibble(state_var)

\* toggle_bits, given the drive's inputs['state_var']
toggle_bits(state_var, header) ==
    LET cmd_count_read == LowNibble(state_var)
        cmd_count_old  == IF cmd_count_read = 15 THEN 0 ELSE cmd_count_read
        cmd_count_new  == (cmd_count_old + 1) % 16
    IN  HighBits(header) + cmd_count_new

\* the two halves the other way round
convert23to16_swapped(value) == << (value \div 65536) % 65536, value % 65536 >>

\* the counter wrapped as toggle_bits wraps it
toggle_bits_cfg_wrapped(cfg_status, header) ==
    HighBits(header) + (((IF LowNibble(cfg_status) = 15 THEN 0 ELSE LowNibble(cfg_status)) + 1) % 16)

\* toggle_bits_cfg, given the drive's inputs['cfg_status']
toggle_bits_cfg(cfg_status, header) ==
    LET cmd_count_old == LowNibble(cfg_status)
        cmd_count_new == (cmd_count_old + 1) % 16
    IN  HighBits(header) + cmd_count_new

\* the upper word taken from a quotient rounded towards zero
convert23to16_truncated(value) ==
    << value % 65536,
       (IF value >= 0 \/ value % 65536 = 0 THEN value \div 65536
        ELSE (value \div 65536) + 1) % 65536 >>

\* convert23to16: (int(value) & 0xFFFF, int(value) >> 16 & 0xFFFF)
convert23to16(value) == << value % 65536, (value \div 65536) % 65536 >>

\* An entry of para_word: [tag, value]; None is the entry with tag 0.
NoPara == [tag |-> 0, val |-> 0]
Para(t, v) == [tag |-> t, val |-> v]

SetWord(m, k, v) == [j \in (DOMAIN m) \cup {k} |-> IF j = k THEN v ELSE m[j]]

\* the words one entry writes, starting at bit_count
WriteEntry(m, pw, bit_count) ==
    IF pw.tag = 1 THEN SetWord(m, bit_count, pw.val)
    ELSE IF pw.tag = 2
         THEN SetWord(SetWord(m, bit_count, convert23to16(pw.val)[1]),
                      bit_count + 1, convert23to16(pw.val)[2])
         ELSE m

\* the para_word loop of update_output_drive_data
RECURSIVE WriteParas(_, _, _)
WriteParas(m, para_word, bit_count) ==
    IF para_word = << >> THEN m
    ELSE LET pw == Head(para_word) IN
         IF bit_count <= 10
         THEN WriteParas(WriteEntry(m, pw, bit_count), Tail(para_word),
                         bit_count + pw.tag)
         ELSE WriteParas(m, Tail(para_word), bit_count)

\* pw of send_motion_command; the arguments are given in thousandths
MotionParas(h, target_pos, max_v, acc, dcc, jerk) ==
    << Para(2, Scaled(target_pos, unit_scale)),
       Para(2, Scaled(max_v, unit_scale * 100)),
       Para(2, Scaled(acc, unit_scale * 10)),
       IF acc_combined(h) THEN NoPara
                          ELSE Para(2, Scaled(dcc, unit_scale * 10)),
       IF jerc_necessery(h) THEN Para(2, Scaled(jerk, unit_scale))
                            ELSE NoPara >>

\* utils.process_input_data: copies the snapshot under the lock and decodes
\* the first device's slice into drive 1
DecodedInputs == [inputs EXCEPT ![1] = data[1]]

\* app.device_data_old = 0 of the constructor: an int, which no bytes object
\* of a slice equals
NoDeviceData == -1

\* the status_word of the frames the bus delivers: a drive at rest
RxStatusWord == 19511     \* 0x4C37

\* status['motion_active'] = bool(inputs['status_word'] & 0x2000), for the
\* drive whose slice was decoded; the other drives keep the False they are
\* created with
motion_active(drive) == drive = 1 /\ (RxStatusWord \div 8192) % 2 = 1

\* the tail of process_input_data: the counter of new data
UpdatedCounter ==
    IF data[1] # device_data_old
    THEN IF lm_drive_data_updated + 1 >= UpdateWrap THEN 0
         ELSE lm_drive_data_updated + 1
    ELSE lm_drive_data_updated

\* send_data_to_slaves
PackedOutputs(outs) == [d \in Devices |-> pack_outputs(outs[d])]

\* update_output_drive_data(app, drive, controlWord, header, para_word)
update_output_drive_data(drive, controlWord, header, para_word) ==
    LET ins  == DecodedInputs
        cw   == IF controlWord # 0 THEN controlWord
                                   ELSE outputs[drive].control_word
        hdr  == toggle_bits(ins[drive], header)
        outs == [outputs EXCEPT
                    ![drive] = [control_word |-> cw,
                                mc_header    |-> hdr,
                                mc_para      |-> WriteParas(@.mc_para, para_word, 0)]]
    IN  /\ lock = "free"
        /\ Len(update_queue) < MaxMailbox
        /\ inputs' = ins
        /\ outputs' = outs
        /\ update_queue' = Append(update_queue, PackedOutputs(outs))

\* Arguments explored for a motion command (thousandths): 50 mm, 0.01 m/s,
\* 0.1 m/s^2, 0.1 m/s^2, jerk 10000 (Main.test_command_table)
ArgTarget == 50000
ArgMaxV   == 10
ArgAcc    == 100
ArgDcc    == 100
ArgJerk   == 10000000

send_motion_command(drive, h) ==
    /\ update_output_drive_data(drive, 0, h,
           MotionParas(h, ArgTarget, ArgMaxV, ArgAcc, ArgDcc, ArgJerk))
    /\ UNCHANGED <<cfg_vars, codec_vars, aux_vars, engine_vars, stop_event, data_queue_ON, data, lock,
                   data_queue, client_pc>>

SendMotionCommand == \E d \in Devices, h \in MotionHeaders : send_motion_command(d, h)

\* Main.test_command_table: update_output_drive_data(header=0x2000, para_word=[[1, 1]])
TableEntry == 1
MainParaWord == << Para(1, TableEntry) >>

TriggerCommandTable ==
    \E d \in Devices :
        /\ update_output_drive_data(d, 0, CommandTableHeader, MainParaWord)
        /\ UNCHANGED <<cfg_vars, codec_vars, aux_vars, engine_vars, stop_event, data_queue_ON, data, lock,
                       data_queue, client_pc>>

----------------------------------------------------------------------------
(* The state after EtherCATCommunication.__init__ and the client's creation *)
(* of its LMDrive_Data objects                                              *)

ZeroImage == [control_word |-> 0, mc_header |-> 0, mc_para |-> [k \in ParaSlots |-> 0]]

\* Main.py: no_Monitoring = 4, no_Parameter = 0
MainMonitoring == 4
MainParameter  == 0

\* mp_logging: int = 0
DefaultLog == 0

ConstructedLog(n, lmdd, ct, e, M, P, pl, lg) ==
    /\ noDev = n
    /\ para_list = pl
    /\ mp_log = lg
    /\ error_queue = {}
    /\ helper_pc = "none"
    /\ helper_d = 1
    /\ wait_cycles = 0
    /\ low_sent = FALSE
    /\ exch = 0
    /\ data_exch = 0
    /\ read_exch = 0
    /\ mf_pc = "none"
    /\ lm_drive_data_updated = 0
    /\ device_data_old = NoDeviceData
    /\ ldd_old = 0
    /\ wr = 0
    /\ cl_pc = [c \in Clients |-> "idle"]
    /\ copy = [c \in Clients |-> << >>]
    /\ sent = [i \in 1 .. n |-> ZeroImage]
    /\ applied = [i \in 1 .. n |-> ZeroImage]
    /\ Activate_LMDrive_Data = lmdd
    /\ cycle_time = ct
    /\ env = e
    /\ no_Monitoring = M
    /\ no_Parameter = P
    /\ found = 0
    /\ sdo_log = [i \in 1 .. n |-> << >>]
    /\ codec_pc = "new"
    /\ wire = << >>
    /\ lmd_inputs = NewInputs(M)
    /\ lmd_outputs = NewOutputs(P)
    /\ lmd_status = NewStatus
    /\ pc = "idle"
    /\ adapter = "unopened"
    /\ master_state = "INIT"
    /\ setup_i = 0
    /\ setup_fault = "none"
    /\ overrun_count = 0
    /\ slave_state = [i \in 1 .. n |-> 0]
    /\ reading = [i \in 1 .. n |-> "none"]
    /\ all_data = [i \in 1 .. n |-> 0]
    /\ elapsed = 0
    /\ lock_timed_out = FALSE
    /\ slaves_output = [i \in 1 .. n |-> ZeroImage]
    /\ lm_drive_data_dict = [i \in 1 .. n |-> [inputs |-> 0, outputs |-> DefaultOutputs]]
    /\ pd_sent = FALSE
    /\ cycle_samples = 0
    /\ cycle_drained = 0
    /\ exit_reason = "none"
    /\ stop_event = TRUE
    /\ data_queue_ON = FALSE
    /\ lock = "free"
    /\ update_queue = << >>
    /\ data_queue = << >>
    /\ client_pc = "init"
    /\ inputs = [i \in 1 .. n |-> 0]
    /\ outputs = [i \in 1 .. n |-> DefaultOutputs]

ConstructedFor(n, lmdd, ct, e, M, P, pl) ==
    ConstructedLog(n, lmdd, ct, e, M, P, pl, DefaultLog)

ConstructedWith(n, lmdd, ct, e, M, P) ==
    ConstructedFor(n, lmdd, ct, e, M, P, MainParaWord)

Constructed(n, lmdd, ct, e) == ConstructedWith(n, lmdd, ct, e, MainMonitoring, MainParameter)

\* the bits of the control word the helpers of SendData.py work on
Bit0 == 1        \* 0x0001, Switch ON
Bit7 == 128      \* 0x0080, Error Acknowledge
BitIsSet(cw, b) == (cw \div b) % 2 = 1
\* cw |= b and cw &= ~b
SetBit(cw, b)   == IF BitIsSet(cw, b) THEN cw ELSE cw + b
ClearBit(cw, b) == IF BitIsSet(cw, b) THEN cw - b ELSE cw

----------------------------------------------------------------------------
(* EtherCATCommunication.py: constants and timing (ticks of 0.1 ms) *)

MAX_CYCLE_OVERRUN       == 20
MAX_SLAVE_COMM_ATTEMPTS == 10
SleepSlack == 4          \* the 0.0004 s of sleep_time
LockMargin == 100        \* the 0.010 s of lock_timeout
LockFloor  == 40         \* the 0.004 s of lock_timeout
WorkFast   == 5          \* a cycle's own work on a healthy bus (0.5 ms)

Max(a, b) == IF a >= b THEN a ELSE b
lock_timeout == Max(cycle_time - LockMargin, LockFloor)

\* cycle times explored: 3 ms (Main.py) and 15 ms (EtherCATCommunication.main)
ShortCycle == 30
LongCycle  == 150
CycleTimes == {ShortCycle, LongCycle}

\* the input frames a cycle may receive: slave i delivers an image (the
\* state_var it carries) of its own, 0x2400 + i or 0x240F - i
RxFrames == { [i \in Devices |-> 9216 + i], [i \in Devices |-> 9231 - i] }

\* what the environment of a run may do
Features == {"fault", "health", "slow", "contend", "mailbox", "scope"}
Scenarios == { {}, {"fault"}, {"health"}, {"slow"}, {"contend"},
               {"mailbox"}, {"scope"} }
Combined  == { {"contend", "mailbox"}, {"contend", "scope"} }

\* the runs explored: every scenario at both cycle times, the combined ones
\* at the long cycle time
Runs == (CycleTimes \X Scenarios) \cup ({LongCycle} \X Combined)

SetupPcs == {"setup_open", "setup_init", "setup_slave", "setup_map",
             "setup_except", "setup_none", "setup_ok"}
LoopPcs  == {"loop", "check", "sendrecv", "publish", "scope1", "drain",
             "scope2", "timing"}

setup_loc == <<setup_i, setup_fault, found, sdo_log>>
cycle_loc == <<overrun_count, slave_state, reading, all_data, elapsed,
               lock_timed_out, cycle_samples, cycle_drained>>
bus_vars  == <<adapter, master_state, pd_sent>>
out_vars  == <<slaves_output, lm_drive_data_dict>>

\* self.error_queue.put(...) if self.mp_log >= 40 else None
ErrorLevel == 40

\* the threshold taken as one that has to be exceeded
LogsAbove(level) == mp_log > level

Logs(level) == mp_log >= level

PutError(kind) ==
    error_queue' = IF Logs(ErrorLevel) THEN error_queue \cup {kind} ELSE error_queue

----------------------------------------------------------------------------
(* setup_comm *)

\* an exception inside the try block of setup_comm
SetupRaise(point) ==
    /\ "fault" \in env
    /\ setup_fault' = point
    /\ pc' = "setup_except"

\* self.master = pysoem.Master(); self.master.open(self.adapter_id)
SetupOpen ==
    /\ pc = "setup_open"
    /\ \/ /\ adapter' = "open"
          /\ pc' = "setup_init"
          /\ UNCHANGED setup_fault
       \/ /\ SetupRaise("open")
          /\ UNCHANGED adapter
    /\ UNCHANGED <<cfg_vars, codec_vars, aux_vars, master_state, pd_sent, setup_i, found,
                   sdo_log, cycle_loc, out_vars, exit_reason, shared_vars,
                   client_vars>>

\* what config_init() may return: the expected count on a sound bus, any
\* count from 0 to one more than the largest expected otherwise
FoundCounts == IF "fault" \in env THEN 0 .. MaxDev + 1 ELSE {noDev}

\* only a count below the expected one taken as a mismatch
CountShort(f) == f < noDev

\* self.master.config_init() != self.noDev
CountMismatch(f) == f # noDev

\* if self.master.config_init() != self.noDev: raise SlaveCountError
SetupConfigInit ==
    /\ pc = "setup_init"
    /\ \E f \in FoundCounts :
          /\ found' = f
          /\ IF CountMismatch(f)
             THEN /\ setup_fault' = "count"
                  /\ pc' = "setup_except"
                  /\ UNCHANGED setup_i
             ELSE /\ pc' = "setup_slave"
                  /\ setup_i' = 1
                  /\ UNCHANGED setup_fault
    /\ UNCHANGED <<cfg_vars, codec_vars, aux_vars, bus_vars, sdo_log, cycle_loc, out_vars,
                   exit_reason, shared_vars, client_vars>>

\* Objects and PDO indices of the mapping
SM2_Assign    == 7186      \* 0x1C12, the output assignment
SM3_Assign    == 7187      \* 0x1C13, the input assignment
Obj_1A20      == 6688      \* 0x1A20
Obj_1620      == 5664      \* 0x1620
DefaultOutput == 5888      \* 0x1700
ConfigOutput  == 5896      \* 0x1708
ParChannel1   == 5928      \* 0x1728
DefaultInput  == 6912      \* 0x1B00
ConfigInput   == 6920      \* 0x1B08
MonChannel1   == 6952      \* 0x1B28

\* slave.sdo_write(index, subindex, value)
SdoWrite(index, subindex, value) == [index |-> index, sub |-> subindex, val |-> value]

\* the channels numbered from one entry too far
ChannelStepShifted(obj, first, N, k) ==
    IF N >= k
    THEN << SdoWrite(obj, 2 + k, first + k) >>
         \o (IF N = k THEN << SdoWrite(obj, 0, 2 + k) >> ELSE << >>)
    ELSE << >>

\* if N >= k: sdo_write(obj, 2 + k, channel k);
\*            if N == k: sdo_write(obj, 0, 2 + k)
ChannelStep(obj, first, N, k) ==
    IF N >= k
    THEN << SdoWrite(obj, 2 + k, first + k - 1) >>
         \o (IF N = k THEN << SdoWrite(obj, 0, 2 + k) >> ELSE << >>)
    ELSE << >>

\* if N == 0: sdo_write(obj, 0, 2), then the four channel blocks
ChannelWrites(obj, first, N) ==
    (IF N = 0 THEN << SdoWrite(obj, 0, 2) >> ELSE << >>)
    \o ChannelStep(obj, first, N, 1) \o ChannelStep(obj, first, N, 2)
    \o ChannelStep(obj, first, N, 3) \o ChannelStep(obj, first, N, 4)

\* the sdo_write calls of the "PDO mappings" block, in order
PdoWrites(M, P) ==
    << SdoWrite(SM2_Assign, 0, 0), SdoWrite(SM3_Assign, 0, 0),
       SdoWrite(Obj_1A20, 0, 0), SdoWrite(Obj_1620, 0, 0),
       SdoWrite(SM2_Assign, 1, DefaultOutput), SdoWrite(SM2_Assign, 2, ConfigOutput) >>
    \o ChannelWrites(SM2_Assign, ParChannel1, P)
    \o << SdoWrite(SM3_Assign, 1, DefaultInput), SdoWrite(SM3_Assign, 2, ConfigInput) >>
    \o ChannelWrites(SM3_Assign, MonChannel1, M)

\* one pass of the loop over self.master.slaves: PREOP and write_state, the
\* name (a failed sdo_read is only reported), then the PDO mapping.  An
\* SdoError of one sdo_write ends the pass after the writes before it.
SetupSlave ==
    /\ pc = "setup_slave"
    /\ master_state' = "PREOP"
    /\ LET writes == PdoWrites(no_Monitoring, no_Parameter) IN
       \/ /\ sdo_log' = [sdo_log EXCEPT ![setup_i] = writes]
          /\ setup_i' = setup_i + 1
          /\ pc' = IF setup_i = noDev THEN "setup_map" ELSE "setup_slave"
          /\ UNCHANGED setup_fault
       \/ /\ \E k \in 0 .. Len(writes) - 1 :
                sdo_log' = [sdo_log EXCEPT ![setup_i] = SubSeq(writes, 1, k)]
          /\ SetupRaise("sdo")
          /\ UNCHANGED setup_i
    /\ (\/ UNCHANGED error_queue
        \/ ("fault" \in env /\ PutError("name")))
    /\ UNCHANGED <<cfg_vars, codec_vars, helper_vars, hist_vars, frame_vars, snap_vars, adapter, pd_sent, found, cycle_loc,
                   out_vars, exit_reason, shared_vars, client_vars>>

\* config_map(); state_check(OP_STATE, 50000); state = OP_STATE; write_state();
\* return self.master.slaves.  The value of state_check is not looked at: a
\* transition that did not reach OP is recorded as the fault "state" and
\* bring-up goes on.
SetupMap ==
    /\ pc = "setup_map"
    /\ \/ /\ master_state' = "OP"
          /\ pc' = "setup_ok"
          /\ \/ UNCHANGED setup_fault
             \/ /\ "fault" \in env
                /\ setup_fault' = "state"
       \/ /\ SetupRaise("map")
          /\ UNCHANGED master_state
    /\ UNCHANGED <<cfg_vars, codec_vars, aux_vars, adapter, pd_sent, setup_i, found, sdo_log,
                   cycle_loc, out_vars, exit_reason, shared_vars, client_vars>>

\* except Exception: self.master.close(); ...; return None
SetupExcept ==
    /\ pc = "setup_except"
    /\ adapter' = "closed"
    /\ pc' = "setup_none"
    /\ PutError("setup")
    /\ UNCHANGED <<cfg_vars, codec_vars, helper_vars, hist_vars, frame_vars, snap_vars, master_state, pd_sent, setup_loc, cycle_loc, out_vars,
                   exit_reason, shared_vars, client_vars>>

----------------------------------------------------------------------------
(* comm_process *)

\* if (slaves is None) or (None in slaves): self.stop_event.set(); return
SetupNone ==
    /\ pc = "setup_none"
    /\ stop_event' = TRUE
    /\ exit_reason' = "setup"
    /\ pc' = "exited"
    /\ PutError("establish")
    /\ UNCHANGED <<cfg_vars, codec_vars, helper_vars, hist_vars, frame_vars, snap_vars, bus_vars, setup_loc, cycle_loc, out_vars,
                   data_queue_ON, data, lock, update_queue, data_queue, client_vars>>

\* lines 298-312: (with self.lock: drive types), overrun_count = 0,
\* data_queue_ON.clear(), stop_event.clear(), slave_state = [0]*noDev
PreLoop ==
    /\ pc = "setup_ok"
    /\ Activate_LMDrive_Data => lock = "free"
    /\ overrun_count' = 0
    /\ data_queue_ON' = FALSE
    /\ stop_event' = FALSE
    /\ slave_state' = [i \in Devices |-> 0]
    /\ pc' = "loop"
    /\ UNCHANGED <<cfg_vars, codec_vars, aux_vars, bus_vars, setup_loc, reading, all_data, elapsed,
                   lock_timed_out, cycle_samples, cycle_drained, out_vars,
                   exit_reason, data, lock, update_queue, data_queue, client_vars>>

\* a loop that does not look at the stop signal
LoopExitNever == FALSE

\* while not self.stop_event.is_set()
LoopExit == stop_event

\* while not self.stop_event.is_set(): start_time = time.perf_counter()
LoopCheck ==
    /\ pc = "loop"
    /\ IF LoopExit
       THEN /\ pc' = "finally"
            /\ exit_reason' = "stop"
            /\ UNCHANGED <<elapsed, lock_timed_out, cycle_samples, cycle_drained,
                            reading>>
       ELSE /\ pc' = "check"
            /\ elapsed' = 0
            /\ lock_timed_out' = FALSE
            /\ cycle_samples' = 0
            /\ cycle_drained' = 0
            /\ reading' = [i \in Devices |-> "none"]
            /\ UNCHANGED exit_reason
    /\ UNCHANGED <<cfg_vars, codec_vars, aux_vars, bus_vars, setup_loc, overrun_count, slave_state,
                   all_data, out_vars, shared_vars, client_vars>>

\* the for loop over the slaves: slave_state[i] = (slave_state[i] + 1) *
\* (not state_check(OP_STATE, 500) == 8); raise at MAX_SLAVE_COMM_ATTEMPTS.
\* r[i] is what state_check returns for slave i; the slaves after the one
\* that raises are not asked.
\* the limit taken as one that has to be exceeded
SlaveLostAbove(count) == count > MAX_SLAVE_COMM_ATTEMPTS

\* if slave_state[i] >= self.MAX_SLAVE_COMM_ATTEMPTS: raise RuntimeError
SlaveLost(count) == count >= MAX_SLAVE_COMM_ATTEMPTS

RECURSIVE CheckSlaves(_, _, _, _)
CheckSlaves(ss, rd, r, i) ==
    IF i > noDev THEN [ss |-> ss, rd |-> rd, raised |-> FALSE]
    ELSE LET n   == IF r[i] = "OP" THEN 0 ELSE ss[i] + 1
             ss2 == [ss EXCEPT ![i] = n]
             rd2 == [rd EXCEPT ![i] = r[i]]
         IN  IF SlaveLost(n)
             THEN [ss |-> ss2, rd |-> rd2, raised |-> TRUE]
             ELSE CheckSlaves(ss2, rd2, r, i + 1)

StateReadings == IF "health" \in env THEN {"OP", "NOT_OP"} ELSE {"OP"}

SlaveCheck ==
    /\ pc = "check"
    /\ \E r \in [Devices -> StateReadings] :
         LET c == CheckSlaves(slave_state, reading, r, 1) IN
            /\ slave_state' = c.ss
            /\ reading' = c.rd
            /\ IF c.raised
               THEN /\ pc' = "finally"
                    /\ exit_reason' = "offline"
                    /\ PutError("unexpected")
               ELSE /\ pc' = "sendrecv"
                    /\ UNCHANGED <<exit_reason, error_queue>>
    /\ UNCHANGED <<cfg_vars, codec_vars, helper_vars, hist_vars, frame_vars, snap_vars, bus_vars, setup_loc, overrun_count, all_data, elapsed,
                   lock_timed_out, cycle_samples, cycle_drained, out_vars,
                   shared_vars, client_vars>>

\* send_processdata(); receive_processdata(2000); all_data = [...]
WorkTimes == IF "slow" \in env THEN {WorkFast, cycle_time} ELSE {WorkFast}

\* history: the exchange is numbered in a run that follows the snapshot, and
\* a frame with bit 0 = 0 for the helper's drive is noted while a helper runs
SentHistory ==
    /\ exch < MaxExch
    /\ exch' = IF "fresh" \in env THEN exch + 1 ELSE exch
    /\ low_sent' = (low_sent \/ (/\ helper_pc \in {"on_wait", "on_done"}
                                 /\ ~BitIsSet(slaves_output[helper_d].control_word, Bit0)))
    /\ sent' = IF "helper" \in env THEN slaves_output ELSE sent

SendReceive ==
    /\ pc = "sendrecv"
    /\ pd_sent' = TRUE
    /\ \E rx \in RxFrames, w \in WorkTimes :
          /\ all_data' = rx
          /\ elapsed' = w
    /\ pc' = "publish"
    /\ SentHistory
    /\ UNCHANGED <<snap_vars, cfg_vars, codec_vars, log_vars, helper_vars, wait_cycles, data_exch, read_exch, applied, adapter, master_state, setup_loc, overrun_count,
                   slave_state, reading, lock_timed_out, cycle_samples,
                   cycle_drained, out_vars, exit_reason, shared_vars, client_vars>>

\* an exception raised by the platform inside the loop: except Exception
LoopRaise ==
    /\ pc = "sendrecv"
    /\ "fault" \in env
    /\ pc' = "finally"
    /\ exit_reason' = "error"
    /\ PutError("unexpected")
    /\ UNCHANGED <<cfg_vars, codec_vars, helper_vars, hist_vars, frame_vars, snap_vars, bus_vars, setup_loc, cycle_loc, out_vars,
                   shared_vars, client_vars>>

\* except KeyboardInterrupt: ...; self.stop_event.set()
Interrupt ==
    /\ pc \in LoopPcs
    /\ "fault" \in env
    /\ stop_event' = TRUE
    /\ pc' = "finally"
    /\ exit_reason' = "interrupt"
    /\ UNCHANGED <<cfg_vars, codec_vars, aux_vars, bus_vars, setup_loc, cycle_loc, out_vars,
                   data_queue_ON, data, lock, update_queue, data_queue, client_vars>>

\* Activate_LMDrive_Data: under the lock, unpack the inputs of every drive
\* into lm_drive_data_dict and write its packed outputs to the slave
LMDriveExchange ==
    /\ lm_drive_data_dict' =
          [i \in Devices |-> [lm_drive_data_dict[i] EXCEPT !.inputs = all_data[i]]]
    /\ slaves_output' = [i \in Devices |-> pack_outputs(lm_drive_data_dict[i].outputs)]

\* if self.lock.acquire(timeout=lock_timeout): ...; self.lock.release()
\* The lock is taken when it is free; when the client holds it the
\* acquisition gives up after lock_timeout and the block is skipped.
Publish ==
    /\ pc = "publish"
    /\ \/ /\ lock = "free"
          /\ IF Activate_LMDrive_Data
             THEN LMDriveExchange /\ UNCHANGED data
             ELSE data' = all_data /\ UNCHANGED out_vars
          /\ UNCHANGED <<elapsed, lock_timed_out>>
       \/ /\ lock = "client"
          /\ elapsed' = elapsed + lock_timeout
          /\ lock_timed_out' = TRUE
          /\ UNCHANGED <<data, out_vars>>
    /\ pc' = IF Activate_LMDrive_Data THEN "scope2" ELSE "scope1"
    /\ data_exch' = IF lock = "free" /\ ~Activate_LMDrive_Data THEN exch ELSE data_exch
    /\ UNCHANGED <<cfg_vars, codec_vars, log_vars, helper_vars, wait_cycles, low_sent, exch, read_exch, frame_vars, snap_vars, bus_vars, setup_loc, overrun_count, slave_state,
                   reading, all_data, cycle_samples, cycle_drained, exit_reason,
                   stop_event, data_queue_ON, lock, update_queue, data_queue,
                   client_vars>>

\* if self.data_queue_ON.is_set(): self.data_queue.put(all_data)
\* data_queue = mp.Queue(): put always appends.  The model follows the queue
\* up to MaxScope samples.
ScopePut ==
    IF data_queue_ON
    THEN /\ Len(data_queue) < MaxScope
         /\ data_queue' = Append(data_queue, all_data)
         /\ cycle_samples' = cycle_samples + 1
    ELSE UNCHANGED <<data_queue, cycle_samples>>

\* lines 353-354 (the branch without Activate_LMDrive_Data)
Scope1 ==
    /\ pc = "scope1"
    /\ ScopePut
    /\ pc' = "drain"
    /\ UNCHANGED <<cfg_vars, codec_vars, aux_vars, bus_vars, setup_loc, overrun_count, slave_state,
                   reading, all_data, elapsed, lock_timed_out, cycle_drained,
                   out_vars, exit_reason, stop_event, data_queue_ON, data, lock,
                   update_queue, client_vars>>

\* the first entry obtained kept instead of the last
DrainOldest(q) == q[1]

\* while not self.update_queue.empty(): new_rx_data = get_nowait()
DrainLatest(q) == q[Len(q)]

\* a list with at least one entry per slave accepted
WellFormedLoose(new_rx_data) == Len(new_rx_data) >= noDev

\* isinstance(new_rx_data, list) and len(new_rx_data) == len(slaves)
WellFormed(new_rx_data) == Len(new_rx_data) = noDev

\* the output buffers left as they are
AssignedNever(new_rx_data) == slaves_output

\* for i, rx_data_instance in enumerate(new_rx_data): slaves[i].output = ...
Assigned(new_rx_data) == [i \in Devices |-> new_rx_data[i]]

\* lines 357-365
Drain ==
    /\ pc = "drain"
    /\ IF update_queue # << >>
       THEN LET new_rx_data == DrainLatest(update_queue) IN
            /\ update_queue' = << >>
            /\ cycle_drained' = Len(update_queue)
            /\ slaves_output' = IF WellFormed(new_rx_data)
                                THEN Assigned(new_rx_data)
                                ELSE slaves_output
            /\ applied' = IF WellFormed(new_rx_data)
                          THEN [i \in Devices |-> new_rx_data[i]]
                          ELSE applied
       ELSE UNCHANGED <<update_queue, cycle_drained, slaves_output, applied>>
    /\ pc' = "scope2"
    /\ UNCHANGED <<snap_vars, cfg_vars, codec_vars, log_vars, helper_vars, hist_vars, sent, bus_vars, setup_loc, overrun_count, slave_state,
                   reading, all_data, elapsed, lock_timed_out, cycle_samples,
                   lm_drive_data_dict, exit_reason, stop_event, data_queue_ON,
                   data, lock, data_queue, client_vars>>

\* lines 368-370
Scope2 ==
    /\ pc = "scope2"
    /\ ScopePut
    /\ pc' = "timing"
    /\ UNCHANGED <<cfg_vars, codec_vars, aux_vars, bus_vars, setup_loc, overrun_count, slave_state,
                   reading, all_data, elapsed, lock_timed_out, cycle_drained,
                   out_vars, exit_reason, stop_event, data_queue_ON, data, lock,
                   update_queue, client_vars>>

\* sleep_time = self.cycle_time - elapsed_time - 0.0004
sleep_time == cycle_time - elapsed - SleepSlack

\* the limit taken as one that has to be reached
OverrunLimitReached(count) == count >= MAX_CYCLE_OVERRUN

\* if overrun_count > self.MAX_CYCLE_OVERRUN: raise RuntimeError
OverrunLimit(count) == count > MAX_CYCLE_OVERRUN

\* history: a cycle the engine ends while a helper waits
WaitPcs == {"on_wait", "ack_wait"}
CycleHistory ==
    wait_cycles' = IF helper_pc \in WaitPcs /\ wait_cycles < 2 THEN wait_cycles + 1
                   ELSE wait_cycles

\* lines 373-383, and the except clause of line 388 for the RuntimeError
Timing ==
    /\ pc = "timing"
    /\ IF sleep_time > 0
       THEN /\ overrun_count' = 0
            /\ pc' = "loop"
            /\ UNCHANGED <<exit_reason, error_queue>>
       ELSE /\ overrun_count' = overrun_count + 1
            /\ IF OverrunLimit(overrun_count + 1)
               THEN /\ pc' = "finally"
                    /\ exit_reason' = "overrun"
                    /\ error_queue' = IF Logs(ErrorLevel)
                                      THEN error_queue \cup {"overrun", "unexpected"}
                                      ELSE error_queue
               ELSE /\ pc' = "loop"
                    /\ PutError("overrun")
                    /\ UNCHANGED exit_reason
    /\ CycleHistory
    /\ UNCHANGED <<cfg_vars, codec_vars, helper_vars, low_sent, exch, data_exch, read_exch, frame_vars, snap_vars, bus_vars, setup_loc, slave_state, reading, all_data,
                   elapsed, lock_timed_out, cycle_samples, cycle_drained, out_vars,
                   shared_vars, client_vars>>

\* finally: stop_event.set(); master.state = SAFEOP_STATE; write_state()
FinallySafeOp ==
    /\ pc = "finally"
    /\ stop_event' = TRUE
    /\ master_state' = "SAFEOP"
    /\ pc' = "closing"
    /\ UNCHANGED <<cfg_vars, codec_vars, aux_vars, adapter, pd_sent, setup_loc, cycle_loc, out_vars,
                   exit_reason, data_queue_ON, data, lock, update_queue,
                   data_queue, client_vars>>

\* a close that leaves the handle open
AdapterLeftOpen == "open"

\* self.master.close(); the process ends
AdapterAfterClose == "closed"

FinallyClose ==
    /\ pc = "closing"
    /\ adapter' = AdapterAfterClose
    /\ pc' = "exited"
    /\ UNCHANGED <<cfg_vars, codec_vars, aux_vars, master_state, pd_sent, setup_loc, cycle_loc, out_vars,
                   exit_reason, shared_vars, client_vars>>

Engine ==
    \/ SetupOpen \/ SetupConfigInit \/ SetupSlave \/ SetupMap \/ SetupExcept
    \/ SetupNone \/ PreLoop \/ LoopCheck \/ SlaveCheck \/ SendReceive
    \/ Publish \/ Scope1 \/ Drain \/ Scope2 \/ Timing
    \/ FinallySafeOp \/ FinallyClose

----------------------------------------------------------------------------
(* The client: start(), stop() and the accesses of Main.py / utils.py /     *)
(* SendData.py to the shared objects                                        *)

\* the bounds of check_values on cycle_time, in ticks, and on M and P
MinCycleTime == 1
MaxCycleTime == 10000
MaxChannel == 4

\* the field check_values rejects first, "none" when it raises nothing
check_values ==
    IF ~(0 < noDev) THEN "noDev"
    ELSE IF ~(MinCycleTime <= cycle_time /\ cycle_time <= MaxCycleTime) THEN "cycle_time"
    ELSE IF ~(0 <= no_Monitoring /\ no_Monitoring <= MaxChannel) THEN "no_Monitoring"
    ELSE IF ~(0 <= no_Parameter /\ no_Parameter <= MaxChannel) THEN "no_Parameter"
    ELSE "none"

\* start(): try: check_values(); comm_proc = mp.Process(target=comm_process);
\* comm_proc.start()  except Exception: error_queue.put(...) if mp_log >= 40;
\* stop_event.set(); self.stop(), which does nothing while comm_proc is None.
\* start() returns to its caller in both cases.
Start ==
    /\ client_pc = "init"
    /\ pc = "idle"
    /\ client_pc' = "running"
    /\ IF check_values = "none"
         THEN /\ pc' = "setup_open"
              /\ UNCHANGED <<stop_event, error_queue>>
         ELSE /\ pc' = pc
              /\ stop_event' = TRUE
              /\ PutError("start")
    /\ UNCHANGED <<cfg_vars, codec_vars, helper_vars, hist_vars, frame_vars, snap_vars, bus_vars, setup_loc, cycle_loc, out_vars, exit_reason,
                   data_queue_ON, data, lock, update_queue, data_queue, inputs, outputs>>

\* stop(): self.stop_event.set(); self.comm_proc.join(timeout=2)
Stop ==
    /\ client_pc = "running"
    /\ stop_event' = TRUE
    /\ client_pc' = "joining"
    /\ UNCHANGED <<cfg_vars, codec_vars, aux_vars, engine_vars, data_queue_ON, data, lock, update_queue,
                   data_queue, inputs, outputs>>

\* stop(), the process is still alive after the join: empty every queue,
\* then self.comm_proc.join()
StopDrain ==
    /\ client_pc = "joining"
    /\ pc # "exited"
    /\ update_queue' = << >>
    /\ data_queue' = << >>
    /\ error_queue' = {}
    /\ client_pc' = "joining2"
    /\ UNCHANGED <<cfg_vars, codec_vars, helper_vars, hist_vars, frame_vars, snap_vars, engine_vars, stop_event, data_queue_ON, data, lock,
                   inputs, outputs>>

\* stop() returns once the process has ended
StopReturn ==
    /\ client_pc \in {"joining", "joining2"}
    /\ pc = "exited"
    /\ client_pc' = "stopped"
    /\ UNCHANGED <<cfg_vars, codec_vars, aux_vars, engine_vars, shared_vars, inputs, outputs>>

\* utils.process_input_data: with app.lock: all_slave_data = data[:]
ClientLockAcquire ==
    /\ "contend" \in env
    /\ client_pc = "running"
    /\ lock = "free"
    /\ lock' = "client"
    /\ UNCHANGED <<cfg_vars, codec_vars, aux_vars, engine_vars, stop_event, data_queue_ON, data,
                   update_queue, data_queue, client_vars>>

ClientReadRelease ==
    /\ lock = "client"
    /\ inputs' = DecodedInputs
    /\ lock' = "free"
    /\ read_exch' = data_exch
    /\ UNCHANGED <<cfg_vars, codec_vars, log_vars, helper_vars, wait_cycles, low_sent, exch, data_exch, frame_vars, snap_vars, engine_vars, stop_event, data_queue_ON, data,
                   update_queue, data_queue, client_pc, outputs>>

\* Main.test_command_table: self.ethercat_comm.data_queue_ON.set() / .clear()
ScopeOn ==
    /\ "scope" \in env
    /\ client_pc = "running"
    /\ ~data_queue_ON
    /\ data_queue_ON' = TRUE
    /\ UNCHANGED <<cfg_vars, codec_vars, aux_vars, engine_vars, stop_event, data, lock, update_queue,
                   data_queue, client_vars>>

ScopeOff ==
    /\ "scope" \in env
    /\ client_pc = "running"
    /\ data_queue_ON
    /\ data_queue_ON' = FALSE
    /\ UNCHANGED <<cfg_vars, codec_vars, aux_vars, engine_vars, stop_event, data, lock, update_queue,
                   data_queue, client_vars>>

\* utils.save_oszi: drains data_queue
SaveOszi ==
    /\ "scope" \in env
    /\ client_pc = "running"
    /\ data_queue # << >>
    /\ data_queue' = << >>
    /\ UNCHANGED <<cfg_vars, codec_vars, aux_vars, engine_vars, stop_event, data_queue_ON, data, lock,
                   update_queue, client_vars>>

\* control_word |= 0x0800 and control_word &= ~0x0800
Bit11 == 2048
SetHomeBit(cw)   == IF (cw \div Bit11) % 2 = 1 THEN cw ELSE cw + Bit11
ClearHomeBit(cw) == IF (cw \div Bit11) % 2 = 1 THEN cw - Bit11 ELSE cw

\* a helper that rewrites the control word of one drive and sends
SendControlWord(d, cw) ==
    LET outs == [outputs EXCEPT ![d].control_word = cw] IN
    /\ "mailbox" \in env
    /\ client_pc = "running"
    /\ helper_pc \notin WaitPcs
    /\ Len(update_queue) < MaxMailbox
    /\ outputs' = outs
    /\ update_queue' = Append(update_queue, PackedOutputs(outs))
    /\ UNCHANGED <<cfg_vars, codec_vars, aux_vars, engine_vars, stop_event, data_queue_ON, data, lock,
                   data_queue, client_pc, inputs>>

\* home_motor / end_home_motor
HomeMotor    == \E d \in Devices : SendControlWord(d, SetHomeBit(outputs[d].control_word))
EndHomeMotor == \E d \in Devices : SendControlWord(d, ClearHomeBit(outputs[d].control_word))

\* a helper that rewrites the control word of one drive, sends, and leaves
\* the client at position hp of the helper
HelperPush(d, cw, hp) ==
    LET outs == [outputs EXCEPT ![d].control_word = cw] IN
    /\ "helper" \in env
    /\ client_pc = "running"
    /\ Len(update_queue) < MaxMailbox
    /\ outputs' = outs
    /\ update_queue' = Append(update_queue, PackedOutputs(outs))
    /\ helper_pc' = hp
    /\ UNCHANGED <<cfg_vars, codec_vars, log_vars, engine_vars, stop_event, data_queue_ON,
                   data, lock, data_queue, client_pc, inputs, exch, data_exch,
                   read_exch, frame_vars, snap_vars>>

\* the first write left out
KeepSwitchOn(cw) == cw

\* control_word &= ~0x0001
ClearSwitchOn(cw) == ClearBit(cw, Bit0)

\* swichON_motor up to its time.sleep: clear bit 0, send
SwitchOnFirst ==
    /\ helper_pc \notin WaitPcs
    /\ \E d \in Devices :
          /\ HelperPush(d, ClearSwitchOn(outputs[d].control_word), "on_wait")
          /\ helper_d' = d
    /\ wait_cycles' = 0
    /\ low_sent' = FALSE

\* swichON_motor after its time.sleep: set bit 0, send
SwitchOnSecond ==
    /\ helper_pc = "on_wait"
    /\ HelperPush(helper_d, SetBit(outputs[helper_d].control_word, Bit0), "on_done")
    /\ UNCHANGED <<helper_d, wait_cycles, low_sent>>

\* the acknowledge bit left set
KeepErrorAck(cw) == cw

\* control_word &= ~0x0080
ClearErrorAck(cw) == ClearBit(cw, Bit7)

\* error_ack up to its time.sleep: set bit 7, clear bit 0, send
ErrorAckFirst ==
    /\ helper_pc \notin WaitPcs
    /\ \E d \in Devices :
          /\ HelperPush(d, ClearBit(SetBit(outputs[d].control_word, Bit7), Bit0), "ack_wait")
          /\ helper_d' = d
    /\ wait_cycles' = 0
    /\ low_sent' = FALSE

\* error_ack after its time.sleep: clear bit 7, send
ErrorAckSecond ==
    /\ helper_pc = "ack_wait"
    /\ HelperPush(helper_d, ClearErrorAck(outputs[helper_d].control_word), "ack_done")
    /\ UNCHANGED <<helper_d, wait_cycles, low_sent>>

\* what a client may put on the mailbox that is not a list with one image
\* per slave: an empty list, or the images of its drives and one more
MalformedEntries == { << >>, Append(PackedOutputs(outputs), ZeroImage) }

\* ethercat_comm.update_queue.put(x) by a client, x not an output list
PutMalformed ==
    /\ "malformed" \in env
    /\ client_pc = "running"
    /\ Len(update_queue) < MaxMailbox
    /\ \E x \in MalformedEntries : update_queue' = Append(update_queue, x)
    /\ UNCHANGED <<cfg_vars, codec_vars, aux_vars, engine_vars, stop_event, data_queue_ON,
                   data, lock, data_queue, client_vars>>

Client ==
    \/ Start \/ Stop \/ StopDrain \/ StopReturn
    \/ ClientLockAcquire \/ ClientReadRelease
    \/ ScopeOn \/ ScopeOff \/ SaveOszi
    \/ HomeMotor \/ EndHomeMotor

----------------------------------------------------------------------------
(* Spec: the engine and its client *)

Init ==
    \E n \in 1 .. MaxDev, lmdd \in BOOLEAN, r \in Runs :
        /\ Constructed(n, lmdd, r[1], r[2])
        /\ data = [i \in 1 .. n |-> 0]

Next == Engine \/ LoopRaise \/ Interrupt \/ Client

Spec == Init /\ [][Next]_vars

----------------------------------------------------------------------------
(* FairSpec: start() and stop() against an engine that keeps running.  The  *)
(* engine is a process of its own and takes its next step whenever it can;  *)
(* a client that has taken the snapshot lock leaves the with-block.         *)

FairScenarios == { {}, {"fault"}, {"contend"} }

FairInit ==
    \E n \in 1 .. MaxDev, lmdd \in BOOLEAN, ct \in CycleTimes, e \in FairScenarios :
        /\ Constructed(n, lmdd, ct, e)
        /\ data = [i \in 1 .. n |-> 0]

FairNext ==
    \/ Engine \/ LoopRaise \/ Interrupt
    \/ Start \/ Stop \/ StopDrain \/ StopReturn
    \/ ClientLockAcquire \/ ClientReadRelease

FairSpec ==
    /\ FairInit
    /\ [][FairNext]_vars
    /\ WF_vars(Engine)
    /\ WF_vars(ClientReadRelease)

----------------------------------------------------------------------------
(* The engine's life: stop, termination, overrun, slave loss                *)

\* C2: whenever the client calls stop() after start(), also while the engine
\* is still in bus setup, the engine eventually leaves the cycle loop and its
\* process exits with the adapter closed.
C2_StopLiveness ==
    [](client_pc \in {"joining", "joining2"}
          => <>(pc = "exited" /\ adapter = "closed"))

\* C3: every exit from the cycle loop goes to the termination sequence; the
\* adapter is closed only after the master state was set to SAFEOP with the
\* stop signal set, and once the engine has exited after the loop the adapter
\* is closed, the master state is SAFEOP and the stop signal is set.
C3_TerminationSequence ==
    /\ [][ /\ (pc \in LoopPcs /\ pc' \notin LoopPcs) => pc' = "finally"
           /\ (pc \notin SetupPcs /\ adapter = "open" /\ adapter' # "open")
                 => (master_state = "SAFEOP" /\ stop_event /\ adapter' = "closed")
           /\ (pc = "finally" /\ pc' # pc)
                 => (master_state' = "SAFEOP" /\ stop_event' /\ adapter' = "open")
         ]_vars
    /\ []((pc = "exited" /\ exit_reason # "setup")
            => (adapter = "closed" /\ master_state = "SAFEOP" /\ stop_event))

C3_Witness ==
    /\ pc = "exited"
    /\ exit_reason \in {"stop", "offline", "overrun", "error", "interrupt"}
    /\ adapter = "closed"
    /\ master_state = "SAFEOP"
    /\ pd_sent

\* C4: at the end of a cycle the overrun counter becomes 0 when the computed
\* sleep time is positive and grows by one when it is not; the engine
\* terminates for overrun exactly in the cycle that takes the counter above
\* 20, the 21st overrun in a row, and in no other.
C4_OverrunTermination ==
    /\ [][ (pc = "timing" /\ pc' \in {"loop", "finally"} /\ exit_reason' # "interrupt")
              => /\ (cycle_time - elapsed - 4 > 0) => overrun_count' = 0
                 /\ (cycle_time - elapsed - 4 <= 0) => overrun_count' = overrun_count + 1
                 /\ (pc' = "finally") <=> (overrun_count' = 21)
                 /\ (pc' = "finally") => exit_reason' = "overrun"
         ]_vars
    /\ [][ exit_reason' = "overrun" => (exit_reason = "overrun" \/ pc = "timing") ]_vars
    /\ [](overrun_count <= 21 /\ (exit_reason = "overrun" => overrun_count = 21))

C4_Witness ==
    /\ pc = "exited"
    /\ exit_reason = "overrun"
    /\ overrun_count = 21

\* C5: the per-slave counter is 0 after an OP reading and one more after a
\* non-OP reading; the engine terminates for a lost slave exactly in the
\* check in which some counter reaches 10, without sending process data in
\* that cycle, and in no other.
C5_SlaveOffline ==
    /\ [][ (pc = "check" /\ pc' \in {"sendrecv", "finally"} /\ exit_reason' # "interrupt")
              => /\ \A i \in Devices :
                       /\ reading'[i] = "OP" => slave_state'[i] = 0
                       /\ reading'[i] = "NOT_OP" => slave_state'[i] = slave_state[i] + 1
                       /\ reading'[i] = "none" => slave_state'[i] = slave_state[i]
                 /\ (pc' = "finally") <=> (\E i \in Devices : slave_state'[i] >= 10)
                 /\ (pc' = "finally") => (exit_reason' = "offline" /\ pd_sent' = pd_sent)
         ]_vars
    /\ [][ exit_reason' = "offline" => (exit_reason = "offline" \/ pc = "check") ]_vars
    /\ [](/\ \A i \in Devices : slave_state[i] <= 10
          /\ (exit_reason = "offline") => (\E i \in Devices : slave_state[i] = 10)
          /\ (pc \in LoopPcs \ {"loop", "check"}) => (\A i \in Devices : slave_state[i] < 10))

C5_Witness ==
    /\ pc = "exited"
    /\ exit_reason = "offline"
    /\ \E i \in Devices : slave_state[i] = 10 /\ reading[i] = "NOT_OP"

----------------------------------------------------------------------------
(* The update mailbox, the scope queue and the snapshot lock                *)

\* C6: when the update mailbox is non-empty at the drain step, the step
\* leaves it empty and assigns the last-pushed entry, element i to slave i,
\* to the slaves' output buffers; no earlier entry is assigned.
C6_DrainToLatest ==
    [][ (pc = "drain" /\ pc' = "scope2" /\ update_queue # << >>)
          => /\ update_queue' = << >>
             /\ slaves_output' =
                   [i \in Devices |-> update_queue[Len(update_queue)][i]]
      ]_vars

C6_Witness ==
    /\ pc = "scope2"
    /\ cycle_drained >= 2
    /\ update_queue = << >>
    /\ slaves_output = PackedOutputs(outputs)
    /\ \E d \in Devices : slaves_output[d].control_word # DefaultControlWord

\* C7: the scope queue never holds more than its capacity N.
C7_ScopeQueueBounded == Len(data_queue) <= ScopeCapacity

\* C8: a cycle appends at most one sample to the scope queue (exactly one
\* when the scope flag is set, none when it is clear).
C8_OneSamplePerCycle == cycle_samples <= 1

\* C9: lock contention alone never terminates the loop: in a run whose bus
\* is healthy and fast the loop is left only because of the stop signal.
C9_LockTimeoutNonFatal ==
    (env \cap {"fault", "health", "slow"} = {}) => exit_reason \in {"none", "stop"}

\* C10: when a step of bring-up has failed, no process data is ever sent and
\* the cycle loop is never entered; once the engine process has returned
\* the adapter is closed and the stop signal is set.
C10_SetupFailureCloses ==
    setup_fault # "none"
        => /\ ~pd_sent
           /\ pc \notin LoopPcs
           /\ pc = "exited" => (adapter = "closed" /\ stop_event)

\* the step that follows a position inside the cycle when nothing is raised
NextInCycle(p) ==
    CASE p = "check"    -> "sendrecv"
      [] p = "sendrecv" -> "publish"
      [] p = "publish"  -> IF Activate_LMDrive_Data THEN "scope2" ELSE "scope1"
      [] p = "scope1"   -> "drain"
      [] p = "drain"    -> "scope2"
      [] p = "scope2"   -> "timing"
      [] p = "timing"   -> "loop"

InCycle == {"check", "sendrecv", "publish", "scope1", "drain", "scope2", "timing"}

\* C28: a stop signal set while the engine is inside a cycle does not abort
\* that cycle: with the signal set every step of the cycle is followed by the
\* next one (receive, publication, drain, timing) unless an error or an
\* interrupt ends the loop, the signal stays set, and the loop check that
\* follows leaves the loop for the finally block without another send.
C28_StopCompletesCycle ==
    [][ /\ (stop_event /\ pc \in InCycle /\ pc' # pc)
            => /\ stop_event'
               /\ \/ pc' = NextInCycle(pc)
                  \/ /\ pc' = "finally"
                     /\ exit_reason' \in {"offline", "overrun", "error", "interrupt"}
        /\ (stop_event /\ pc = "loop" /\ pc' # pc)
            => /\ pc' = "finally"
               /\ exit_reason' \in {"stop", "interrupt"}
               /\ pd_sent' = pd_sent
               /\ slaves_output' = slaves_output
        /\ (pc \in {"finally", "closing", "exited"} /\ pc' # pc)
            => pc' \notin InCycle \cup {"loop"}
      ]_vars

\* the client has called stop() after the send of a cycle and before its
\* publication
C28_Witness ==
    /\ stop_event
    /\ client_pc = "joining"
    /\ pc = "publish"
    /\ pd_sent
    /\ exit_reason = "none"

\* C25: when the slaves have not reached OP within the timeout of
\* state_check at the end of bring-up, setup fails instead of returning a
\* session (the adapter is closed, the engine ends with a setup error) and
\* the cycle loop is not entered.
C25_StateTransitionFails ==
    setup_fault = "state"
        => /\ pc \in {"setup_except", "setup_none", "exited"}
           /\ pc \in {"setup_none", "exited"} => adapter = "closed"
           /\ pc = "exited" => exit_reason = "setup"
           /\ ~pd_sent

----------------------------------------------------------------------------
(* SpecSetup: bring-up for every channel configuration check_values admits, *)
(* on a bus that may report any slave count and fail any step               *)

\* check_values: 0 <= no_Monitoring <= 4, 0 <= no_Parameter <= 4
Channels == 0 .. 4

SetupInit ==
    \E n \in 1 .. MaxDev, M \in Channels, P \in Channels :
        /\ ConstructedWith(n, FALSE, ShortCycle, {"fault"}, M, P)
        /\ data = [i \in 1 .. n |-> 0]

SetupNext ==
    \/ Start \/ SetupOpen \/ SetupConfigInit \/ SetupSlave \/ SetupMap
    \/ SetupExcept \/ SetupNone

SpecSetup == SetupInit /\ [][SetupNext]_vars

\* C11: bring-up goes past enumeration only when the count found equals the
\* expected one; with any other count setup fails with the count mismatch,
\* no state write and no SDO write has been issued, and the adapter is
\* closed when setup has returned.
C11_SlaveCountCheck ==
    (pc \notin {"idle", "setup_open", "setup_init"} /\ setup_fault # "open")
        => IF found = noDev
           THEN setup_fault # "count"
           ELSE /\ setup_fault = "count"
                /\ pc \in {"setup_except", "setup_none", "exited"}
                /\ master_state = "INIT"
                /\ \A i \in Devices : sdo_log[i] = << >>
                /\ ~pd_sent
                /\ pc \in {"setup_none", "exited"} => adapter = "closed"

C11_Witness ==
    /\ noDev = 2
    /\ found = 1
    /\ setup_fault = "count"
    /\ pc = "exited"
    /\ adapter = "closed"

\* the value an object holds at a subindex after the writes of a log: that
\* of the last write to it, -1 when there is none
LastWrite(log, index, subindex) ==
    LET at == { j \in 1 .. Len(log) : log[j].index = index /\ log[j].sub = subindex }
    IN  IF at = {} THEN -1
        ELSE log[CHOOSE j \in at : \A k \in at : k <= j].val

SubsWritten(log, index) == { log[j].sub : j \in { k \in 1 .. Len(log) : log[k].index = index } }

\* C12: after a successful bring-up, for every slave, 0x1C12 holds 0x1700,
\* 0x1708 and the first P parameter channels 0x1728.. at subindices 1..2+P
\* and 2 + P at subindex 0; 0x1C13 holds 0x1B00, 0x1B08 and the first M
\* monitoring channels 0x1B28.. and 2 + M at subindex 0; no higher subindex
\* of either is written.
C12_PdoMap ==
    pc = "setup_ok"
        => \A i \in Devices :
             LET log == sdo_log[i] IN
             /\ LastWrite(log, 7186, 1) = 5888
             /\ LastWrite(log, 7186, 2) = 5896
             /\ \A k \in 1 .. no_Parameter : LastWrite(log, 7186, 2 + k) = 5927 + k
             /\ LastWrite(log, 7186, 0) = 2 + no_Parameter
             /\ SubsWritten(log, 7186) = 0 .. 2 + no_Parameter
             /\ LastWrite(log, 7187, 1) = 6912
             /\ LastWrite(log, 7187, 2) = 6920
             /\ \A k \in 1 .. no_Monitoring : LastWrite(log, 7187, 2 + k) = 6951 + k
             /\ LastWrite(log, 7187, 0) = 2 + no_Monitoring
             /\ SubsWritten(log, 7187) = 0 .. 2 + no_Monitoring

C12_Witness ==
    /\ pc = "setup_ok"
    /\ noDev = 2
    /\ no_Monitoring = 4
    /\ no_Parameter = 3
    /\ Len(sdo_log[2]) = 17

----------------------------------------------------------------------------
(* SpecCodec: the codec of one LMDrive_Data object, for every channel count  *)
(* check_values admits, applied to frames and output images drawn from       *)
(* bounded sets                                                              *)

\* state_var words: high bytes around the error state 0x04, low bytes 0..0xFF
StateVarSamples == { (h * 256) + l : h \in {0, 3, 4, 5, 36, 132, 255}, l \in {0, 1, 15, 255} }

\* wire values of a monitoring channel: around 0x8000 and 0x10000, and the
\* ends of the int32 range
MonSamples == {0, 1, 32767, 32768, 65535, 65536, -1, -32768, MaxInt32, MinInt32}

\* the fields of a frame in the order of the layout; channel j carries v
InputValues(M, sv, j, v) ==
    << sv, 19511, 0, -5, 500000, -10, 0, 0, 0 >>
    \o [k \in 1 .. M |-> IF k = j THEN v ELSE k]

WellFormedFrames(M) ==
    { struct_pack(InputFormat(M), InputValues(M, sv, 0, 0)) : sv \in StateVarSamples }
    \cup { struct_pack(InputFormat(M), InputValues(M, 8704, j, v)) :
               j \in 1 .. M, v \in MonSamples }

\* cfg_status words: every counter value under two upper parts
CfgStatusSamples == { u + n : u \in {0, 43968}, n \in 0 .. 15 }    \* 0x000n, 0xABCn

\* frames of the layout that carry a cfg_status
CfgFrames(M) ==
    { struct_pack(InputFormat(M),
                  [InputValues(M, 8704, 0, 0) EXCEPT ![7] = cs]) : cs \in CfgStatusSamples }

\* the frames offered to the decoder: the frames of the layout, and their
\* first 18 + 4*M bytes
InputFrames(M) ==
    WellFormedFrames(M)
    \cup CfgFrames(M)
    \cup { SubSeq(struct_pack(InputFormat(M), InputValues(M, 8704, j, 32768)),
                  1, 18 + (4 * M)) : j \in 0 .. M }

\* output images with every field in the range of its code
OutputImages(P) ==
    { [control_word |-> cw, mc_header |-> 8193,
       mc_para |-> [k \in ParaSlots |-> IF k = 0 THEN w ELSE k * 4369],
       cfg_control |-> 4660, cfg_index_out |-> 65535, cfg_value_out |-> cv,
       par_ch |-> [k \in 1 .. P |-> IF k = j THEN pv ELSE k]] :
          cw \in {DefaultControlWord, 65535}, w \in {1, 41248},
          cv \in {0, -1, MaxInt32}, j \in 1 .. P, pv \in {0, 32768, 65535} }
    \cup { [NewOutputs(P) EXCEPT !.cfg_value_out = cv] : cv \in {0, -1, MinInt32} }

codec_rest == <<cfg_vars, engine_vars, shared_vars, client_vars, aux_vars>>

\* unpack_inputs(data): struct.unpack raises before any field is assigned
UnpackInputs ==
    /\ codec_pc = "new"
    /\ \E frame \in InputFrames(no_Monitoring) :
        /\ wire' = frame
        /\ IF Unpackable(InputFormat(no_Monitoring), frame)
           THEN /\ lmd_inputs' = DecodedFields(no_Monitoring, frame)
                /\ codec_pc' = "inputs_ok"
           ELSE /\ lmd_inputs' = lmd_inputs
                /\ codec_pc' = "inputs_error"
    /\ UNCHANGED <<codec_rest, lmd_outputs, lmd_status>>

\* update_calculated_fields: the error code first, then the monitoring
\* channels 1..3; a channel the object does not have raises KeyError
UpdateCalculatedFields ==
    /\ codec_pc = "inputs_ok"
    /\ lmd_status' =
         [error_code |-> error_code(lmd_inputs.state_var),
          measured_force |-> IF no_Monitoring >= 1 THEN c_int32(lmd_inputs.mon_ch[1])
                             ELSE lmd_status.measured_force,
          analog_diff_voltage |-> IF no_Monitoring >= 2 THEN c_int32(lmd_inputs.mon_ch[2])
                                  ELSE lmd_status.analog_diff_voltage,
          analog_voltage |-> IF no_Monitoring >= 3 THEN c_int32(lmd_inputs.mon_ch[3])
                             ELSE lmd_status.analog_voltage]
    /\ codec_pc' = IF no_Monitoring >= 3 THEN "calculated" ELSE "key_error"
    /\ UNCHANGED <<codec_rest, wire, lmd_inputs, lmd_outputs>>

\* the owner of the object assigns the fields of outputs
WriteOutputs ==
    /\ codec_pc = "new"
    /\ lmd_outputs' \in OutputImages(no_Parameter)
    /\ codec_pc' = "outputs_set"
    /\ UNCHANGED <<codec_rest, wire, lmd_inputs, lmd_status>>

\* pack_outputs()
PackOutputs ==
    /\ codec_pc = "outputs_set"
    /\ wire' = struct_pack(PackOutputFormat(no_Parameter), data_to_pack(lmd_outputs))
    /\ codec_pc' = "packed"
    /\ UNCHANGED <<codec_rest, lmd_inputs, lmd_outputs, lmd_status>>

\* unpack_outputs(data) on the image pack_outputs returned
UnpackOutputs ==
    /\ codec_pc = "packed"
    /\ IF Unpackable(UnpackOutputFormat(no_Parameter), wire)
       THEN /\ lmd_outputs' = DecodedOutputs(no_Parameter, wire)
            /\ codec_pc' = "outputs_ok"
       ELSE /\ lmd_outputs' = lmd_outputs
            /\ codec_pc' = "outputs_error"
    /\ UNCHANGED <<codec_rest, wire, lmd_inputs, lmd_status>>

\* the arguments of a configuration write: a value that hex_valid turns into
\* an integer is << v >>, one it turns into None is << >>
CfgControls == {0, 4660, 65535}      \* 0x0000, 0x1234, 0xFFFF
CfgIndex == 5200                     \* 0x1450
CfgValues == {<< >>, << 7 >>}

\* update_output_cfg(app, drive, cfg_control, cfg_index_out, cfg_value_out)
\* followed by send_data_to_slaves; the objects of the other drives are taken
\* to hold the same outputs as the one followed here
update_output_cfg(cfg_control, cfg_index_out, cfg_value_out) ==
    /\ codec_pc = "inputs_ok"
    /\ IF cfg_control = << >>
       THEN /\ codec_pc' = "cfg_none"
            /\ UNCHANGED <<lmd_outputs, wire, update_queue>>
       ELSE LET outs == [lmd_outputs EXCEPT
                           !.cfg_control = toggle_bits_cfg(lmd_inputs.cfg_status,
                                                           cfg_control[1]),
                           !.cfg_index_out = cfg_index_out,
                           !.cfg_value_out = IF cfg_value_out = << >> THEN @
                                             ELSE cfg_value_out[1]]
                packed == struct_pack(PackOutputFormat(no_Parameter), data_to_pack(outs))
            IN  /\ lmd_outputs' = outs
                /\ wire' = packed
                /\ update_queue' = Append(update_queue, [d \in 1 .. noDev |-> packed])
                /\ codec_pc' = "cfg_sent"
    /\ UNCHANGED <<cfg_vars, engine_vars, stop_event, data_queue_ON, data, lock,
                   data_queue, client_vars, aux_vars, lmd_inputs, lmd_status>>

UpdateOutputCfg ==
    \E c \in {<< >>} \cup { << v >> : v \in CfgControls }, cv \in CfgValues :
        update_output_cfg(c, CfgIndex, cv)

CodecInit ==
    \E n \in 1 .. MaxDev, M \in Channels, P \in Channels :
        /\ ConstructedWith(n, FALSE, ShortCycle, {}, M, P)
        /\ data = [i \in 1 .. n |-> 0]

CodecNext ==
    \/ UnpackInputs
    \/ UpdateCalculatedFields
    \/ WriteOutputs
    \/ PackOutputs
    \/ UnpackOutputs
    \/ UpdateOutputCfg

SpecCodec == CodecInit /\ [][CodecNext]_vars

\* C13: for every M in 0..4 the frame the decoder accepts has exactly
\* 18 + 4*M bytes, a frame it rejects has another length, and the snapshot
\* has (18 + 4*M) * slaves elements.
C13_InputFrameSize ==
    /\ codec_pc = "inputs_ok" => Len(wire) = 18 + (4 * no_Monitoring)
    /\ codec_pc = "inputs_error" => Len(wire) # 18 + (4 * no_Monitoring)
    /\ SnapshotLength(noDev, no_Monitoring) = (18 + (4 * no_Monitoring)) * noDev

\* C14: for every P in 0..4 the image the encoder produces for one slave has
\* exactly 30 + 2*P bytes.
C14_OutputFrameSize ==
    codec_pc \in {"packed", "outputs_ok", "outputs_error"}
        => Len(wire) = 30 + (2 * no_Parameter)

\* the fields of inputs in the order of the layout
InputFieldValues(in) ==
    << in.state_var, in.status_word, in.warn_word, in.demand_pos, in.actual_pos,
       in.demand_curr, in.cfg_status, in.cfg_index_in, in.cfg_value_in >>
    \o in.mon_ch

Decoded == codec_pc \in {"inputs_ok", "calculated", "key_error"}

\* C15: the input decode is lossless: re-encoding the decoded fields of a
\* well-formed frame with the same layout yields the frame byte for byte.
C15_InputDecodeLossless ==
    Decoded => struct_pack(InputFormat(no_Monitoring), InputFieldValues(lmd_inputs)) = wire

\* C16: unpack_outputs of the image pack_outputs produced succeeds and yields
\* the field values that were packed (the image re-encodes from them).
C16_OutputRoundTrip ==
    /\ codec_pc # "outputs_error"
    /\ codec_pc = "outputs_ok"
         => struct_pack(PackOutputFormat(no_Parameter), data_to_pack(lmd_outputs)) = wire

\* the signed 32-bit value of monitoring channel k on the wire
WireChannel(k) == UnpackField("i", wire, calcsize(InputBaseFormat) + (4 * (k - 1)))

\* C17: the value stored in mon_ch by unpack_inputs, and the integer the
\* derived monitoring fields are scaled from, is the full signed 32-bit wire
\* value of the channel.
C17_MonitoringFullWidth ==
    /\ Decoded => \A k \in 1 .. no_Monitoring : lmd_inputs.mon_ch[k] = WireChannel(k)
    /\ codec_pc = "calculated"
         => /\ lmd_status.measured_force = WireChannel(1)
            /\ lmd_status.analog_diff_voltage = WireChannel(2)
            /\ lmd_status.analog_voltage = WireChannel(3)

Calculated == codec_pc \in {"calculated", "key_error"}
WireStateVar == UnpackField("H", wire, 0)

\* C18 (as stated): error_code is non-zero if and only if the high byte of
\* state_var is 0x04, and when non-zero it is the low byte.
C18_ErrorCodeIff ==
    Calculated =>
        /\ lmd_status.error_code # 0 <=> WireStateVar \div 256 = 4
        /\ lmd_status.error_code # 0 => lmd_status.error_code = WireStateVar % 256

\* C18 (amended): error_code is the low byte of state_var when its high byte
\* is 0x04 and 0 otherwise; it is non-zero if and only if the high byte is
\* 0x04 and the low byte is not zero.
C18_ErrorCode ==
    Calculated =>
        /\ lmd_status.error_code =
             (IF WireStateVar \div 256 = 4 THEN WireStateVar % 256 ELSE 0)
        /\ lmd_status.error_code # 0
             <=> (WireStateVar \div 256 = 4 /\ WireStateVar % 256 # 0)

C18_Witness ==
    /\ codec_pc = "calculated"
    /\ WireStateVar = 1039
    /\ lmd_status.error_code = 15

\* the cfg_control word of the image on the wire
WireCfgControl == UnpackField("H", wire, 24)

\* C30: for every value n in 0..15 of cfg_status & 0x0F in the decoded input,
\* a configuration write sets cfg_control, in the drive model and in the image
\* it sends, to the given value with its upper 12 bits preserved and its low
\* nibble equal to (n + 1) mod 16.
C30_CfgCounterStamp ==
    [][ \A c \in CfgControls, cv \in CfgValues :
          update_output_cfg(<< c >>, CfgIndex, cv)
              => LET n == lmd_inputs.cfg_status % 16 IN
                 /\ lmd_outputs'.cfg_control = (c - (c % 16)) + ((n + 1) % 16)
                 /\ WireCfgControl' = lmd_outputs'.cfg_control
                 /\ lmd_outputs'.cfg_index_out = CfgIndex
      ]_vars

\* a write of 0x1234 after cfg_status 0xABCF: the counter wraps to 0
C30_Witness ==
    /\ codec_pc = "cfg_sent"
    /\ lmd_inputs.cfg_status = 43983
    /\ lmd_outputs.cfg_control = 4656
    /\ WireCfgControl = 4656

----------------------------------------------------------------------------
(* SpecPara: update_output_drive_data applied to every para_word list of up  *)
(* to MaxParaLen entries                                                     *)

\* None, a one-word entry and a two-word entry (500000 = 0x0007A120)
ParaEntries == { NoPara, Para(1, 4369), Para(2, 500000) }

ParaLists == UNION { [1 .. k -> ParaEntries] : k \in 0 .. MaxParaLen }

\* update_output_drive_data(app, drive, None, 0x2000, para_word)
UpdateOutputDriveData ==
    \E d \in Devices :
        /\ update_output_drive_data(d, 0, CommandTableHeader, para_list)
        /\ UNCHANGED <<cfg_vars, codec_vars, aux_vars, engine_vars, stop_event, data_queue_ON, data, lock,
                       data_queue, client_pc>>

ParaInit ==
    \E n \in 1 .. MaxDev, pl \in ParaLists :
        /\ ConstructedFor(n, FALSE, ShortCycle, {}, MainMonitoring, MainParameter, pl)
        /\ data = [i \in 1 .. n |-> 8704]

ParaNext == UpdateOutputDriveData

SpecPara == ParaInit /\ [][ParaNext]_vars

\* the slots a list needs: one per tag-1 entry, two per tag-2 entry
RECURSIVE SlotsNeeded(_)
SlotsNeeded(pl) == IF pl = << >> THEN 0 ELSE Head(pl).tag + SlotsNeeded(Tail(pl))

\* C19: no parameter word with index above 09 is ever written to the drive
\* model, and an update whose list needs more than 10 slots fails: it
\* enqueues no output image.
C19_ParameterSlotBound ==
    /\ \A d \in Devices : DOMAIN outputs[d].mc_para \subseteq ParaSlots
    /\ SlotsNeeded(para_list) > 10 => update_queue = << >>

----------------------------------------------------------------------------
(* SpecHelper: the two-step helpers swichON_motor and error_ack of a client  *)
(* against a running engine on a sound bus                                   *)

\* the engine on a sound bus: bring-up and the cycle loop
EngineRun ==
    \/ SetupOpen \/ SetupConfigInit \/ SetupSlave \/ SetupMap
    \/ PreLoop \/ LoopCheck \/ SlaveCheck \/ SendReceive
    \/ Publish \/ Scope1 \/ Drain \/ Scope2 \/ Timing

HelperInit ==
    \E n \in 1 .. MaxDev, lmdd \in BOOLEAN, ct \in CycleTimes :
        /\ Constructed(n, lmdd, ct, {"helper"})
        /\ data = [i \in 1 .. n |-> 0]

HelperNext ==
    \/ Start \/ EngineRun
    \/ SwitchOnFirst \/ SwitchOnSecond
    \/ ErrorAckFirst \/ ErrorAckSecond

SpecHelper == HelperInit /\ [][HelperNext]_vars

\* the image a helper step has just put on the mailbox, for the helper's drive
PushedImage == update_queue'[Len(update_queue')][helper_d']
Pushes == Len(update_queue') = Len(update_queue) + 1

OtherBits(cw) == ClearBit(ClearBit(cw, Bit7), Bit0)

\* a helper step changed, of the drive model, at most bits 0 and 7 of the
\* control word of its own drive
OnlySwitchAndAck ==
    \A e \in Devices :
        /\ [outputs'[e] EXCEPT !.control_word = 0] = [outputs[e] EXCEPT !.control_word = 0]
        /\ OtherBits(outputs'[e].control_word) = OtherBits(outputs[e].control_word)
        /\ e # helper_d' => outputs'[e] = outputs[e]

\* C22: error_ack pushes first an image with control-word bit 7 set and bit 0
\* cleared and then, after its wait, an image with bit 7 cleared and bit 0
\* still cleared; when it returns bit 7 of the drive model's control word is
\* 0, and nothing but bits 0 and 7 of that control word was changed.
C22_ErrorAckSequence ==
    [][ /\ (helper_pc' = "ack_wait" /\ helper_pc # "ack_wait")
             => /\ Pushes
                /\ BitIsSet(PushedImage.control_word, Bit7)
                /\ ~BitIsSet(PushedImage.control_word, Bit0)
                /\ PushedImage = PackedOutputs(outputs')[helper_d']
                /\ OnlySwitchAndAck
        /\ (helper_pc = "ack_wait" /\ helper_pc' = "ack_done")
             => /\ Pushes
                /\ helper_d' = helper_d
                /\ ~BitIsSet(PushedImage.control_word, Bit7)
                /\ ~BitIsSet(PushedImage.control_word, Bit0)
                /\ PushedImage = PackedOutputs(outputs')[helper_d']
                /\ ~BitIsSet(outputs'[helper_d].control_word, Bit7)
                /\ OnlySwitchAndAck
      ]_vars

C22_Witness ==
    /\ helper_pc = "ack_done"
    /\ Len(update_queue) = 2
    /\ update_queue[1][helper_d].control_word = 190
    /\ update_queue[2][helper_d].control_word = 62
    /\ outputs[helper_d].control_word = 62

\* C27: an image that is the latest entry of the update mailbox when the
\* engine reaches the drain step of cycle k is assigned to the output buffers
\* in cycle k and is the image the send of cycle k+1 transmits; an image
\* pushed after the drain step of cycle k is assigned no earlier than the
\* drain step of cycle k+1: the buffers change at drain steps only, and a
\* drain step takes nothing but what the mailbox holds at that moment.
C27_MailboxOrdering ==
    [][ ~Activate_LMDrive_Data =>
          /\ (pc = "drain" /\ pc' = "scope2" /\ update_queue # << >>)
                => /\ slaves_output' = update_queue[Len(update_queue)]
                   /\ applied' = update_queue[Len(update_queue)]
          /\ (pc = "sendrecv" /\ pc' = "publish") => sent' = applied
          /\ slaves_output' # slaves_output
                => /\ pc = "drain" /\ pc' = "scope2"
                   /\ update_queue # << >>
                   /\ update_queue' = << >>
          /\ applied' # applied => (pc = "drain" /\ pc' = "scope2")
      ]_vars

\* the send of a cycle has transmitted the image assigned one cycle earlier
\* while a later push is waiting for the next drain step
C27_Witness ==
    /\ ~Activate_LMDrive_Data
    /\ pc = "publish"
    /\ sent = applied
    /\ \E d \in Devices : sent[d].control_word = 63
    /\ update_queue # << >>
    /\ update_queue[Len(update_queue)] # applied

----------------------------------------------------------------------------
(* SpecLog: the engine against a faulty platform, at every log level on     *)
(* either side of the thresholds                                            *)

LogLevels == {0, 20, 40, 50}
LogScenarios == { {"fault"}, {"health"}, {"slow"} }

LogInit ==
    \E n \in 1 .. MaxDev, lmdd \in BOOLEAN, e \in LogScenarios, lg \in LogLevels :
        /\ ConstructedLog(n, lmdd, ShortCycle, e, MainMonitoring, MainParameter,
                          MainParaWord, lg)
        /\ data = [i \in 1 .. n |-> 0]

LogNext == Start \/ Engine \/ LoopRaise \/ Interrupt

SpecLog == LogInit /\ [][LogNext]_vars

FatalReasons == {"setup", "offline", "overrun", "error"}
FatalExit == pc = "exited" /\ exit_reason \in FatalReasons

\* the message every fatal exit of a kind puts
FatalMessage ==
    CASE exit_reason = "setup"   -> "establish"
      [] exit_reason = "offline" -> "unexpected"
      [] exit_reason = "overrun" -> "overrun"
      [] exit_reason = "error"   -> "unexpected"

\* C23 as stated: whenever the engine has terminated because of a fatal error,
\* whatever the configured log level, a message describing the error has been
\* put on the error queue and the stop signal is set.
C23_AlwaysPublished ==
    FatalExit => (stop_event /\ error_queue # {})

\* C23: whenever the engine has terminated because of a fatal error, the stop
\* signal is set and the client is where its own calls left it; a message
\* describing the error has been put on the error queue when the configured
\* log level is at least 40, and no message at all below that level.
C23_FatalPublished ==
    FatalExit =>
        /\ stop_event
        /\ client_pc = "running"
        /\ mp_log >= 40 => FatalMessage \in error_queue
        /\ mp_log < 40 => error_queue = {}

C23_Witness ==
    /\ FatalExit
    /\ exit_reason = "overrun"
    /\ mp_log = 40
    /\ error_queue = {"overrun", "unexpected"}

----------------------------------------------------------------------------
(* SpecStart: start() on every configuration around the bounds of           *)
(* check_values                                                             *)

\* cycle times below, at and above the bounds, in ticks
StartCycleTimes == {0, MinCycleTime, ShortCycle, MaxCycleTime, MaxCycleTime + 1}
StartChannels == 0 .. MaxChannel + 1

StartInit ==
    \E n \in 0 .. MaxDev, ct \in StartCycleTimes, M \in StartChannels,
       P \in StartChannels, lg \in {DefaultLog, ErrorLevel} :
        /\ ConstructedLog(n, FALSE, ct, {}, M, P, MainParaWord, lg)
        /\ data = [i \in 1 .. n |-> 0]

StartNext == Start \/ SetupOpen

SpecStart == StartInit /\ [][StartNext]_vars

InvalidConfig ==
    \/ noDev <= 0
    \/ cycle_time < 1 \/ cycle_time > 10000
    \/ no_Monitoring \notin 0 .. 4
    \/ no_Parameter \notin 0 .. 4

\* C24: start() with a device count <= 0, a cycle time outside [0.0001 s, 1 s]
\* or M or P outside 0..4 fails with a configuration error raised to the
\* caller; no engine process is started, the adapter is never opened and the
\* stop signal remains set.
C24_ConfigError ==
    (InvalidConfig /\ client_pc # "init") =>
        /\ client_pc = "config_error"
        /\ pc = "idle"
        /\ adapter = "unopened"
        /\ stop_event

----------------------------------------------------------------------------
(* SpecFresh: a client that reads the snapshot under the lock while the     *)
(* engine exchanges frames; exchanges are numbered from 1                   *)

FreshInit ==
    \E n \in 1 .. MaxDev, lmdd \in BOOLEAN, ct \in CycleTimes :
        /\ Constructed(n, lmdd, ct, {"contend", "fresh"})
        /\ data = [i \in 1 .. n |-> 0]

FreshNext == Start \/ EngineRun \/ ClientLockAcquire \/ ClientReadRelease

SpecFresh == FreshInit /\ [][FreshNext]_vars

\* C26: every read of the snapshot taken under the lock while the engine is
\* running returns the image of the most recently completed exchange or of
\* the one before it, and never an image of an earlier exchange than a
\* previous read returned.
C26_SnapshotFresh ==
    [][ (lock = "client" /\ lock' = "free" /\ pc \in LoopPcs)
            => /\ read_exch' >= exch - 1
               /\ read_exch' >= read_exch
      ]_vars

\* C26, its second half alone: successive reads never go back
C26_ReadsMonotone ==
    [][ (lock = "client" /\ lock' = "free") => read_exch' >= read_exch ]_vars

----------------------------------------------------------------------------
(* SpecStamp: the command helpers applied to every counter value the drive  *)
(* can report in the snapshot                                               *)

StateVars == { 9216 + n : n \in 0 .. 15 } \cup { 8704 }   \* 0x2400 .. 0x240F, 0x2200

StampInit ==
    \E n \in 1 .. MaxDev :
        /\ Constructed(n, FALSE, ShortCycle, {})
        \* process_input_data decodes the first device's slice only: the
        \* other slices are left as constructed
        /\ \E sv \in StateVars : data = [i \in 1 .. n |-> IF i = 1 THEN sv ELSE 0]

StampNext == SendMotionCommand \/ TriggerCommandTable

SpecStamp == StampInit /\ [][StampNext]_vars

\* C1: the mc_header written by a motion command or a command-table trigger
\* keeps the upper 12 bits of the base header and carries the counter
\* (n + 1) mod 16, n being the low nibble of the state_var decoded by the call.
Stamped(state_var, header) == HighBits(header) + ((LowNibble(state_var) + 1) % 16)

C1_CounterStamp ==
    [][ /\ \A d \in Devices, h \in MotionHeaders :
              send_motion_command(d, h)
                  => outputs'[d].mc_header = Stamped(inputs'[d], h)
        /\ \A d \in Devices :
              (/\ update_output_drive_data(d, 0, CommandTableHeader, << Para(1, TableEntry) >>)
               /\ UNCHANGED data)
                  => outputs'[d].mc_header = Stamped(inputs'[d], CommandTableHeader)
      ]_vars

\* C20: a command-table trigger of entry e, whatever was commanded before,
\* enqueues an image whose mc_header is 0x2000 with the counter nibble (0x2001
\* after state_var 0x2200), whose mc_para_word00 is e and mc_para_word01 is
\* 0x0000, and whose mc_para_word02..09 and control word are unchanged.
C20_CommandTableTrigger ==
    [][ \A d \in Devices :
          (/\ update_output_drive_data(d, 0, CommandTableHeader, MainParaWord)
           /\ UNCHANGED data)
              => LET img == update_queue'[Len(update_queue')][d] IN
                 /\ HighBits(img.mc_header) = CommandTableHeader
                 /\ inputs'[d] = 8704 => img.mc_header = 8193
                 /\ img.mc_para[0] = TableEntry
                 /\ img.mc_para[1] = 0
                 /\ \A k \in 2 .. 9 : img.mc_para[k] = outputs[d].mc_para[k]
                 /\ img.control_word = outputs[d].control_word
      ]_vars

----------------------------------------------------------------------------
(* The stop signal, stop() and the drain of a malformed mailbox entry       *)

\* C31: the stop signal is one-shot: once it is set by a client's stop
\* request or by the engine on a fatal error, no later step of the engine or
\* of a client clears it.
C31_StopOneShot ==
    [][ (/\ stop_event
         /\ \/ client_pc \in {"joining", "joining2", "stopped"}
            \/ exit_reason \in {"setup", "offline", "overrun", "error"})
            => stop_event'
      ]_vars

\* FairSpec with a client that goes on inside stop(): the timed join returns,
\* the queues are emptied, and the call returns when the second join does
FairStopSpec ==
    /\ FairInit
    /\ [][FairNext]_vars
    /\ WF_vars(Engine)
    /\ WF_vars(ClientReadRelease)
    /\ WF_vars(StopDrain)
    /\ WF_vars(StopReturn)

\* C32: stop() always returns: a client that has called stop() eventually
\* gets the call back, also when the engine never observes the stop signal.
C32_StopReturns ==
    [](client_pc \in {"joining", "joining2"} => <>(client_pc = "stopped"))

\* SpecMailbox: a client that puts well-formed images (the two steps of
\* swichON_motor) and malformed entries on the mailbox of a running engine
MailboxInit ==
    \E n \in 1 .. MaxDev, ct \in CycleTimes :
        /\ Constructed(n, FALSE, ct, {"helper", "malformed"})
        /\ data = [i \in 1 .. n |-> 0]

MailboxNext ==
    \/ Start \/ EngineRun
    \/ SwitchOnFirst \/ SwitchOnSecond
    \/ PutMalformed

SpecMailbox == MailboxInit /\ [][MailboxNext]_vars

\* C33: when the latest entry drained from the mailbox in a cycle is not a
\* list of one image per slave, that cycle changes no slave output buffer,
\* also when earlier entries drained in the same cycle were well-formed; the
\* mailbox is left empty and the engine goes on with the cycle.
C33_MalformedIgnored ==
    [][ (/\ pc = "drain" /\ pc' # pc
         /\ update_queue # << >>
         /\ Len(update_queue[Len(update_queue)]) # noDev)
            => /\ slaves_output' = slaves_output
               /\ update_queue' = << >>
               /\ pc' = "scope2"
               /\ exit_reason' = "none"
               /\ error_queue' = error_queue
      ]_vars

\* a switch-on image was pushed and drained, a malformed entry after it, and
\* the output buffers still hold what bring-up left in them
C33_Witness ==
    /\ pc = "scope2"
    /\ cycle_drained = 2
    /\ helper_pc = "on_wait"
    /\ update_queue = << >>
    /\ pd_sent
    /\ \A d \in Devices : slaves_output[d] = ZeroImage

----------------------------------------------------------------------------
(* The command counters                                                     *)

\* C34: the counter stamped always differs from the one reported: for every
\* n in 0..15 read from state_var, the low nibble of the mc_header a motion
\* command or a command-table trigger writes differs from n, and for every n
\* in 0..15 read from cfg_status the low nibble of the cfg_control that
\* toggle_bits_cfg returns differs from n.
C34_CounterDiffers ==
    /\ \A d \in Devices :
          HighBits(outputs[d].mc_header) # 0
              => /\ LowNibble(outputs[d].mc_header) # LowNibble(inputs[d])
                 /\ \A k \in 1 .. Len(update_queue) :
                       HighBits(update_queue[k][d].mc_header) # 0
                           => LowNibble(update_queue[k][d].mc_header) # LowNibble(inputs[d])
    /\ \A cs \in CfgStatusSamples, c \in CfgControls :
          LowNibble(toggle_bits_cfg(cs, c)) # LowNibble(cs)

\* a command issued after the drive reported counter 15, and one after it
\* reported counter 0: both are stamped 1
C34_Witness ==
    /\ LowNibble(inputs[1]) \in {0, 15}
    /\ HighBits(outputs[1].mc_header) # 0
    /\ LowNibble(outputs[1].mc_header) = 1
    /\ Len(update_queue) = MaxMailbox

\* C35: of two motion or command-table commands issued one after the other
\* for the same drive, the second carries a counter nibble different from the
\* first, also when the snapshot has not changed between them.
C35_SuccessiveDiffer ==
    [][ \A d \in Devices :
          (/\ HighBits(outputs[d].mc_header) # 0
           /\ \/ \E h \in MotionHeaders :
                    HighBits(outputs'[d].mc_header) = h /\ send_motion_command(d, h)
              \/ /\ HighBits(outputs'[d].mc_header) = CommandTableHeader
                 /\ update_output_drive_data(d, 0, CommandTableHeader, MainParaWord)
                 /\ UNCHANGED data)
              => LowNibble(outputs'[d].mc_header) # LowNibble(outputs[d].mc_header)
      ]_vars

----------------------------------------------------------------------------
(* SpecLock: the snapshot and its lock followed slot by slot: the engine     *)
(* stores the image of a cycle one slave at a time while it holds the lock,  *)
(* and each client thread copies the snapshot one slave at a time while it   *)
(* holds it                                                                  *)

\* an acquire that does not look at the lock
acquire_any(l) == TRUE

\* lock.acquire succeeds when the lock is free
acquire(l) == l = "free"

\* what the cycle does after the block under the lock
AfterPublish == IF Activate_LMDrive_Data THEN "scope2" ELSE "scope1"

\* if self.lock.acquire(timeout=lock_timeout): the lock is taken when it is
\* free; while another holds it the acquisition may give up after
\* lock_timeout, and the block is skipped
PublishAcquire ==
    /\ pc = "publish"
    /\ "slots" \in env
    /\ \/ /\ acquire(lock)
          /\ lock' = "engine"
          /\ wr' = 0
          /\ pc' = "writing"
          /\ UNCHANGED <<elapsed, lock_timed_out>>
       \/ /\ lock # "free"
          /\ elapsed' = elapsed + lock_timeout
          /\ lock_timed_out' = TRUE
          /\ pc' = AfterPublish
          /\ UNCHANGED <<lock, wr>>
    /\ UNCHANGED <<cfg_vars, codec_vars, log_vars, helper_vars, hist_vars, frame_vars, motion_vars,
                   cl_pc, copy, bus_vars, setup_loc, overrun_count, slave_state,
                   reading, all_data, cycle_samples, cycle_drained, out_vars,
                   exit_reason, stop_event, data_queue_ON, data, update_queue,
                   data_queue, client_vars>>

\* update_calculated_fields reads mon_ch1..mon_ch3 of the object
CalculatedFieldsRaise == no_Monitoring < 3

\* the block under the lock, one slave per step.  Without
\* Activate_LMDrive_Data: self.data[:] = all_data[:].  With it: unpack_inputs,
\* update_calculated_fields and pack_outputs of drive wr + 1; an exception
\* raised there is caught by `except Exception` outside the loop.
PublishWrite ==
    /\ pc = "writing"
    /\ wr < noDev
    /\ IF ~Activate_LMDrive_Data
       THEN /\ data' = [data EXCEPT ![wr + 1] = all_data[wr + 1]]
            /\ wr' = wr + 1
            /\ UNCHANGED <<pc, exit_reason, error_queue, out_vars>>
       ELSE IF CalculatedFieldsRaise
       THEN /\ pc' = "finally"
            /\ exit_reason' = "error"
            /\ PutError("unexpected")
            /\ UNCHANGED <<data, wr, out_vars>>
       ELSE /\ lm_drive_data_dict' =
                  [lm_drive_data_dict EXCEPT ![wr + 1].inputs = all_data[wr + 1]]
            /\ slaves_output' =
                  [slaves_output EXCEPT ![wr + 1] = pack_outputs(lm_drive_data_dict[wr + 1].outputs)]
            /\ wr' = wr + 1
            /\ UNCHANGED <<pc, exit_reason, error_queue, data>>
    /\ UNCHANGED <<cfg_vars, codec_vars, helper_vars, hist_vars, frame_vars, motion_vars,
                   cl_pc, copy, bus_vars, setup_loc, cycle_loc,
                   stop_event, data_queue_ON, lock, update_queue,
                   data_queue, client_vars>>

\* self.lock.release()
PublishRelease ==
    /\ pc = "writing"
    /\ wr = noDev
    /\ lock' = "free"
    /\ pc' = AfterPublish
    /\ data_exch' = IF Activate_LMDrive_Data THEN data_exch ELSE exch
    /\ UNCHANGED <<cfg_vars, codec_vars, log_vars, helper_vars, wait_cycles, low_sent,
                   exch, read_exch, frame_vars, snap_vars, bus_vars, setup_loc,
                   cycle_loc, out_vars, exit_reason, stop_event, data_queue_ON,
                   data, update_queue, data_queue, client_vars>>

\* process_input_data of thread c: with app.lock:
CopyAcquire(c) ==
    /\ "slots" \in env
    /\ client_pc = "running"
    /\ cl_pc[c] = "idle"
    /\ acquire(lock)
    /\ lock' = "client"
    /\ cl_pc' = [cl_pc EXCEPT ![c] = "copying"]
    /\ copy' = [copy EXCEPT ![c] = << >>]
    /\ UNCHANGED <<cfg_vars, codec_vars, log_vars, helper_vars, hist_vars, frame_vars, motion_vars,
                   wr, engine_vars, stop_event, data_queue_ON, data, update_queue,
                   data_queue, client_vars>>

\* all_slave_data = app.ethercat_comm.data[:], one slave per step
CopySlot(c) ==
    /\ cl_pc[c] = "copying"
    /\ Len(copy[c]) < noDev
    /\ copy' = [copy EXCEPT ![c] = Append(@, data[Len(@) + 1])]
    /\ UNCHANGED <<cfg_vars, codec_vars, log_vars, helper_vars, hist_vars, frame_vars, motion_vars,
                   wr, cl_pc, engine_vars, shared_vars, client_vars>>

\* the end of the with block, and the decode of the first device's slice
CopyRelease(c) ==
    /\ cl_pc[c] = "copying"
    /\ Len(copy[c]) = noDev
    /\ lock' = "free"
    /\ cl_pc' = [cl_pc EXCEPT ![c] = "idle"]
    /\ inputs' = [inputs EXCEPT ![1] = copy[c][1]]
    /\ read_exch' = data_exch
    /\ UNCHANGED <<cfg_vars, codec_vars, log_vars, helper_vars, wait_cycles, low_sent,
                   exch, data_exch, frame_vars, motion_vars, wr, copy, engine_vars, stop_event,
                   data_queue_ON, data, update_queue, data_queue, client_pc, outputs>>

\* the channel counts explored: Main's, and one update_calculated_fields
\* cannot serve
LockChannels == {2, MainMonitoring}

LockInit ==
    \E n \in 1 .. MaxDev, lmdd \in BOOLEAN, M \in LockChannels :
        /\ ConstructedWith(n, lmdd, LongCycle, {"slots"}, M, MainParameter)
        /\ data = [i \in 1 .. n |-> 0]

LockNext ==
    \/ Start \/ Stop \/ StopDrain \/ StopReturn
    \/ SetupOpen \/ SetupConfigInit \/ SetupSlave \/ SetupMap
    \/ PreLoop \/ LoopCheck \/ SlaveCheck \/ SendReceive
    \/ PublishAcquire \/ PublishWrite \/ PublishRelease
    \/ Scope1 \/ Drain \/ Scope2 \/ Timing
    \/ FinallySafeOp \/ FinallyClose
    \/ \E c \in Clients : CopyAcquire(c)
    \/ \E c \in Clients : CopySlot(c)
    \/ \E c \in Clients : CopyRelease(c)

SpecLock == LockInit /\ [][LockNext]_vars

\* C36: no torn snapshot: every complete copy a client thread obtains is the
\* image of one engine cycle for all slaves (or the zeros the array is
\* created with), under every interleaving of the engine and the clients.
C36_NoTornSnapshot ==
    \A c \in Clients :
        Len(copy[c]) = noDev
            => copy[c] \in RxFrames \cup { [i \in Devices |-> 0] }

\* both threads hold a complete copy of two drives, taken from different
\* cycles
C36_Witness ==
    /\ noDev = 2
    /\ copy[1] \in RxFrames
    /\ copy[2] \in RxFrames
    /\ copy[1] # copy[2]
    /\ \A c \in Clients : cl_pc[c] = "idle"

\* C37: the engine never exits holding the snapshot lock: once it has left
\* the cycle loop, for any reason, the lock is not held by it.
C37_ExitReleasesLock ==
    pc \in {"finally", "closing", "exited"} => lock # "engine"

----------------------------------------------------------------------------
(* SpecMotion: a client inside motion_finished while the engine runs         *)

motion_rest == <<cfg_vars, codec_vars, log_vars, helper_vars, hist_vars, frame_vars,
                 wr, cl_pc, copy, engine_vars, shared_vars, client_pc, outputs>>

\* motion_finished up to the loop: sleep, process_input_data, ldd_old
MotionFinishedCall ==
    /\ "motion" \in env
    /\ client_pc = "running"
    /\ mf_pc = "none"
    /\ lock = "free"
    /\ inputs' = DecodedInputs
    /\ lm_drive_data_updated' = UpdatedCounter
    /\ device_data_old' = data[1]
    /\ ldd_old' = UpdatedCounter
    /\ mf_pc' = "poll"
    /\ UNCHANGED motion_rest

\* one turn of `while ma`: process_input_data; the status of the monitored
\* drives is looked at only if the counter has changed
MotionFinishedPoll ==
    /\ mf_pc = "poll"
    /\ lock = "free"
    /\ inputs' = DecodedInputs
    /\ lm_drive_data_updated' = UpdatedCounter
    /\ device_data_old' = data[1]
    /\ IF UpdatedCounter # ldd_old
       THEN /\ ldd_old' = UpdatedCounter
            /\ mf_pc' = IF \E d \in Devices : motion_active(d) THEN "poll"
                        ELSE "returned"
       ELSE UNCHANGED <<ldd_old, mf_pc>>
    /\ UNCHANGED motion_rest

MotionInit ==
    \E n \in 1 .. MaxDev, ct \in CycleTimes :
        /\ Constructed(n, FALSE, ct, {"motion"})
        /\ data = [i \in 1 .. n |-> 0]

MotionNext == Start \/ EngineRun \/ MotionFinishedCall \/ MotionFinishedPoll

\* the engine process and the client's loop both keep running
SpecMotion ==
    /\ MotionInit
    /\ [][MotionNext]_vars
    /\ WF_vars(EngineRun)
    /\ WF_vars(MotionFinishedPoll)

\* C38: motion_finished terminates: with every monitored drive reporting
\* motion_active = false in the decoded status, the call returns, also when
\* the snapshot is the same from one read to the next.
C38_MotionFinishedReturns ==
    [](mf_pc = "poll" => <>(mf_pc = "returned"))

----------------------------------------------------------------------------
(* The decode of the snapshot and the split of a 32-bit parameter           *)

\* C39: after the client's input-processing step, the raw inputs of every
\* drive model i are the decode of slice i of the snapshot.
C39_EveryDriveRefreshed ==
    [][ (lock = "client" /\ lock' = "free")
            => \A i \in Devices : inputs'[i] = data[i]
      ]_vars

\* SpecSplit: update_output_drive_data with one tag-2 entry, alone or after
\* a tag-1 entry, for values over the whole signed 32-bit range
SplitSamples == {0, 1, 65535, 65536, 500000, MaxInt32,
                 -1, -2, -65535, -65536, -65537, -500000, MinInt32 + 1, MinInt32}

SplitLists == { << Para(2, v) >> : v \in SplitSamples }
              \cup { << Para(1, 4369), Para(2, v) >> : v \in SplitSamples }

SplitInit ==
    \E n \in 1 .. MaxDev, pl \in SplitLists :
        /\ ConstructedFor(n, FALSE, ShortCycle, {}, MainMonitoring, MainParameter, pl)
        /\ data = [i \in 1 .. n |-> 8704]

SplitNext == UpdateOutputDriveData

SpecSplit == SplitInit /\ [][SplitNext]_vars

\* the signed 32-bit value whose two's-complement image has the given words
JoinWords(low, high) ==
    IF high < 32768 THEN (high * 65536) + low
    ELSE ((high - 65536) * 65536) + low

\* C40: the tag-2 split is exact in two's complement: for every v with
\* -2^31 <= v < 2^31 the two words written are in 0..65535, they are the low
\* and the high word of v mod 2^32, and the low word is in the lower-indexed
\* slot; the image put on the mailbox carries the same words.
C40_SplitExact ==
    \A d \in Devices :
        outputs[d].mc_header # 0
            => LET k    == Len(para_list) - 1
                   v    == para_list[Len(para_list)].val
                   low  == outputs[d].mc_para[k]
                   high == outputs[d].mc_para[k + 1]
                   img  == update_queue[Len(update_queue)][d].mc_para
               IN  /\ low \in 0 .. 65535
                   /\ high \in 0 .. 65535
                   /\ low = v % 65536
                   /\ JoinWords(low, high) = v
                   /\ img[k] = low
                   /\ img[k + 1] = high

\* -2^31 written after a one-word entry: 0x0000 in word 01, 0x8000 in word 02
C40_Witness ==
    /\ para_list = << Para(1, 4369), Para(2, MinInt32) >>
    /\ outputs[1].mc_header # 0
    /\ outputs[1].mc_para[0] = 4369
    /\ outputs[1].mc_para[1] = 0
    /\ outputs[1].mc_para[2] = 32768

====
